---- MODULE Spec2Model ----
(***************************************************************************)
(* Model of the detection post-processing of paz's EfficientDet example    *)
(* (examples/efficientdet/boxes.py and processors.py) and of the pose      *)
(* geometry of paz/backend/keypoints.py.                                   *)
(*                                                                         *)
(* Conventions.                                                            *)
(*  - A numpy array of shape (N, K) is a record [rows, cols]: rows is the  *)
(*    sequence of its N rows, cols is K.  The column count is kept apart   *)
(*    from the rows because an array with zero rows still has a width.     *)
(*  - Scores and thresholds, floats of [0, 1] in the source, are integers  *)
(*    counting hundredths: 0.45 is 45, 0.01 is 1, the score 1.0 is 100.    *)
(*  - Box coordinates are integers.                                        *)
(*  - Positions in a sequence count from 1 (numpy counts from 0); class    *)
(*    arguments keep numpy's numbering 0 .. C-1.                           *)
(*  - A call ends in a record [raised, value]: raised is "none" when the   *)
(*    call returned value, and the exception's name when it raised.        *)
(***************************************************************************)
EXTENDS Integers, Sequences, FiniteSets

VARIABLES op, args, result, trace, processor

vars == <<op, args, result, trace, processor>>

\* ------------------------------------------------------------------ bounds
MaxBoxes == 2
MaxTopK == 2
MaxSide == 4
MaxImageSize == 4
MaxPixel == 2

\* ------------------------------------------------------- program constants
DefaultNmsThresh == 45
DefaultConfThresh == 1
DefaultTopK == 200
DefaultScore == 100

\* ------------------------------------------------------------------ helpers
Min2(a, b) == IF a <= b THEN a ELSE b
Max2(a, b) == IF a >= b THEN a ELSE b

Returned(v) == [raised |-> "none", value |-> v]
Raised(e, a) == [raised |-> e, value |-> a]

NoValue == <<>>
NoProcessor == [class |-> "none"]

\* box_data[:, :4] and box_data[:, 4:] of one row
coordinates_of(row) == SubSeq(row, 1, 4)
class_scores_of(row) == SubSeq(row, 5, Len(row))

\* np.array([], dtype=float).reshape(0, cols)
empty_array(cols) == [rows |-> <<>>, cols |-> cols]

\* np.concatenate((a, b)) along axis 0
concatenate(a, b) == [rows |-> a.rows \o b.rows, cols |-> a.cols]

\* ------------------------------------------------------------------ inputs
\* boxes of positive area on a grid of three coordinates, with y_min = 0:
\* the IoU of two of them is 0, 1/4, 1/3, 1/2 or 1
Coords == 0..2
BoxSet == {b \in Coords \X {0} \X Coords \X Coords : b[1] < b[3] /\ b[2] < b[4]}
\* scores 0.5 and 0.9; conf_thresh 0.01 passes both, 0.9 passes only 0.9
ScoreLevels == {50, 90}
ConfThreshs == {1, 90}
NmsThreshs == {25, 45}
TopKs == 1..MaxTopK
NumClasses == 1..2
MaxClasses == CHOOSE C \in NumClasses : \A D \in NumClasses : D <= C

ScoreRows(C) == [1..C -> ScoreLevels]
BoxRows(C) == {b \o s : b \in BoxSet, s \in ScoreRows(C)}
SeqsUpTo(S, n) == UNION {[1..k -> S] : k \in 0..n}
BoxArrays(C) == {[rows |-> r, cols |-> 4 + C] : r \in SeqsUpTo(BoxRows(C), MaxBoxes)}

\* --------------------------------------------- paz.backend.boxes (from spec)
area(b) == (b[3] - b[1]) * (b[4] - b[2])

intersection(a, b) ==
    Max2(Min2(a[3], b[3]) - Max2(a[1], b[1]), 0)
        * Max2(Min2(a[4], b[4]) - Max2(a[2], b[2]), 0)

union(a, b) == area(a) + area(b) - intersection(a, b)

\* IoU(a, b) > thresh / 100, a union of zero area counting as no overlap
iou_above(a, b, thresh) ==
    IF union(a, b) <= 0 THEN FALSE
    ELSE intersection(a, b) * 100 > thresh * union(a, b)

RECURSIVE greedy_suppression(_, _, _, _, _, _)
greedy_suppression(boxes, scores, iou_thresh, top_k, remaining, selected) ==
    IF remaining = {} \/ Len(selected) >= top_k THEN selected
    ELSE LET best == CHOOSE i \in remaining : \A j \in remaining :
                        \/ scores[i] > scores[j]
                        \/ (scores[i] = scores[j] /\ i <= j)
             kept == {j \in remaining \ {best} :
                        ~iou_above(boxes[best], boxes[j], iou_thresh)}
         IN greedy_suppression(boxes, scores, iou_thresh, top_k, kept,
                               Append(selected, best))

\* returns (indices, count): the positions of the selected boxes, best first
apply_non_max_suppression(boxes, scores, iou_thresh, top_k) ==
    LET selected == greedy_suppression(boxes, scores, iou_thresh, top_k,
                                       1..Len(boxes), <<>>)
    IN [indices |-> selected, count |-> Len(selected)]

\* ------------------------------------------------------------ nms_per_class
\* array[mask]: the rows whose mask entry is true, in order
RECURSIVE boolean_index(_, _)
boolean_index(rows, mask) ==
    IF rows = <<>> THEN <<>>
    ELSE (IF Head(mask) THEN <<Head(rows)>> ELSE <<>>)
            \o boolean_index(Tail(rows), Tail(mask))

\* array[indices]: the rows at the given positions, in the order given
integer_index(rows, indices) == [k \in 1..Len(indices) |-> rows[indices[k]]]

class_mask(box_data, class_arg, conf_thresh) ==
    [i \in 1..Len(box_data.rows) |->
        class_scores_of(box_data.rows[i])[class_arg + 1] >= conf_thresh]

\* the mutants of one turn of the loop
nms_class_selections_default_top_k(box_data, class_arg, nms_thresh, conf_thresh, top_k) ==
    LET mask == class_mask(box_data, class_arg, conf_thresh)
        masked == boolean_index(box_data.rows, mask)
        scores == [k \in 1..Len(masked) |-> class_scores_of(masked[k])[class_arg + 1]]
        boxes == [k \in 1..Len(masked) |-> coordinates_of(masked[k])]
        nms == apply_non_max_suppression(boxes, scores, nms_thresh, DefaultTopK)
        selected_indices == SubSeq(nms.indices, 1, nms.count)
        classes == [k \in 1..Len(masked) |-> class_scores_of(masked[k])]
    IN IF Len(scores) = 0 THEN <<>>
       ELSE [k \in 1..Len(selected_indices) |->
                integer_index(boxes, selected_indices)[k]
                    \o integer_index(classes, selected_indices)[k]]

nms_class_selections_swapped_thresh(box_data, class_arg, nms_thresh, conf_thresh, top_k) ==
    LET mask == class_mask(box_data, class_arg, conf_thresh)
        masked == boolean_index(box_data.rows, mask)
        scores == [k \in 1..Len(masked) |-> class_scores_of(masked[k])[class_arg + 1]]
        boxes == [k \in 1..Len(masked) |-> coordinates_of(masked[k])]
        nms == apply_non_max_suppression(boxes, scores, conf_thresh, top_k)
        selected_indices == SubSeq(nms.indices, 1, nms.count)
        classes == [k \in 1..Len(masked) |-> class_scores_of(masked[k])]
    IN IF Len(scores) = 0 THEN <<>>
       ELSE [k \in 1..Len(selected_indices) |->
                integer_index(boxes, selected_indices)[k]
                    \o integer_index(classes, selected_indices)[k]]

nms_class_selections_all_masked(box_data, class_arg, nms_thresh, conf_thresh, top_k) ==
    boolean_index(box_data.rows, class_mask(box_data, class_arg, conf_thresh))

\* mutants: the candidates reach the suppression in reverse order; the rows
\* appended hold the coordinates and the score of the class only
nms_class_selections_reversed(box_data, class_arg, nms_thresh, conf_thresh, top_k) ==
    LET mask == class_mask(box_data, class_arg, conf_thresh)
        forward == boolean_index(box_data.rows, mask)
        masked == [k \in 1..Len(forward) |-> forward[Len(forward) + 1 - k]]
        scores == [k \in 1..Len(masked) |-> class_scores_of(masked[k])[class_arg + 1]]
        boxes == [k \in 1..Len(masked) |-> coordinates_of(masked[k])]
        nms == apply_non_max_suppression(boxes, scores, nms_thresh, top_k)
        selected_indices == SubSeq(nms.indices, 1, nms.count)
        classes == [k \in 1..Len(masked) |-> class_scores_of(masked[k])]
    IN IF Len(scores) = 0 THEN <<>>
       ELSE [k \in 1..Len(selected_indices) |->
                integer_index(boxes, selected_indices)[k]
                    \o integer_index(classes, selected_indices)[k]]

nms_class_selections_own_score(box_data, class_arg, nms_thresh, conf_thresh, top_k) ==
    LET mask == class_mask(box_data, class_arg, conf_thresh)
        masked == boolean_index(box_data.rows, mask)
        scores == [k \in 1..Len(masked) |-> class_scores_of(masked[k])[class_arg + 1]]
        boxes == [k \in 1..Len(masked) |-> coordinates_of(masked[k])]
        nms == apply_non_max_suppression(boxes, scores, nms_thresh, top_k)
        selected_indices == SubSeq(nms.indices, 1, nms.count)
    IN IF Len(scores) = 0 THEN <<>>
       ELSE [k \in 1..Len(selected_indices) |->
                integer_index(boxes, selected_indices)[k]
                    \o [c \in 1..(box_data.cols - 4) |->
                           scores[selected_indices[k]]]]

\* one turn of the loop over class_arg: the rows it appends to output
nms_class_selections(box_data, class_arg, nms_thresh, conf_thresh, top_k) ==
    LET mask == class_mask(box_data, class_arg, conf_thresh)
        masked == boolean_index(box_data.rows, mask)
        scores == [k \in 1..Len(masked) |-> class_scores_of(masked[k])[class_arg + 1]]
        boxes == [k \in 1..Len(masked) |-> coordinates_of(masked[k])]
        nms == apply_non_max_suppression(boxes, scores, nms_thresh, top_k)
        selected_indices == SubSeq(nms.indices, 1, nms.count)
        classes == [k \in 1..Len(masked) |-> class_scores_of(masked[k])]
    IN IF Len(scores) = 0 THEN <<>>
       ELSE [k \in 1..Len(selected_indices) |->
                integer_index(boxes, selected_indices)[k]
                    \o integer_index(classes, selected_indices)[k]]

RECURSIVE nms_loop(_, _, _, _, _, _)
nms_loop(box_data, class_arg, nms_thresh, conf_thresh, top_k, output) ==
    IF class_arg >= box_data.cols - 4 THEN output
    ELSE nms_loop(box_data, class_arg + 1, nms_thresh, conf_thresh, top_k,
            concatenate(output,
                [rows |-> nms_class_selections(box_data, class_arg, nms_thresh,
                                               conf_thresh, top_k),
                 cols |-> box_data.cols]))

nms_per_class_empty_width(box_data, nms_thresh, conf_thresh, top_k) ==
    nms_loop(box_data, 0, nms_thresh, conf_thresh, top_k, empty_array(0))

nms_per_class(box_data, nms_thresh, conf_thresh, top_k) ==
    nms_loop(box_data, 0, nms_thresh, conf_thresh, top_k,
             empty_array(box_data.cols))

\* what the loop emitted, class by class: the number of rows of each turn
rows_per_class(box_data, nms_thresh, conf_thresh, top_k) ==
    [class_arg \in 0..(box_data.cols - 5) |->
        Len(nms_class_selections(box_data, class_arg, nms_thresh, conf_thresh, top_k))]

\* what NonMaximumSuppressionPerClass.call passes on: top_k keeps its default
NonMaximumSuppressionPerClass_init(nms_thresh, conf_thresh) ==
    [class |-> "NonMaximumSuppressionPerClass",
     nms_thresh |-> nms_thresh, conf_thresh |-> conf_thresh]

NonMaximumSuppressionPerClass_call(self, boxes) ==
    nms_per_class(boxes, self.nms_thresh, self.conf_thresh, DefaultTopK)

\* the array of the end-to-end example: two boxes, two classes
ExampleBoxData ==
    [rows |-> << <<0, 0, 10, 10, 90, 10>>, <<1, 1, 9, 9, 80, 5>> >>, cols |-> 6]

\* ------------------------------------------------------------- filter_boxes
\* np.max of a non-empty vector
RECURSIVE np_max(_)
np_max(v) ==
    IF Len(v) = 1 THEN v[1] ELSE Max2(v[1], np_max(Tail(v)))

\* np.argmax of a non-empty vector: the first position of the maximum, from 0
np_argmax(v) ==
    (CHOOSE k \in 1..Len(v) :
        /\ v[k] = np_max(v)
        /\ \A j \in 1..(k - 1) : v[j] # np_max(v)) - 1

\* mutant: the row's maximum must exceed the threshold
filter_boxes_strict(boxes, conf_thresh) ==
    [rows |-> boolean_index(boxes.rows,
                [i \in 1..Len(boxes.rows) |->
                    np_max(class_scores_of(boxes.rows[i])) > conf_thresh]),
     cols |-> boxes.cols]

\* mutant: the maximum taken along axis 0, one mask entry per class column
filter_boxes_axis0(boxes, conf_thresh) ==
    LET N == Len(boxes.rows)
        column(j) == [i \in 1..N |-> boxes.rows[i][4 + j]]
        mask == [i \in 1..N |->
                    /\ i <= boxes.cols - 4
                    /\ np_max(column(i)) >= conf_thresh]
    IN [rows |-> boolean_index(boxes.rows, mask), cols |-> boxes.cols]

filter_boxes(boxes, conf_thresh) ==
    LET max_class_score == [i \in 1..Len(boxes.rows) |->
                                np_max(class_scores_of(boxes.rows[i]))]
        confidence_mask == [i \in 1..Len(boxes.rows) |->
                                max_class_score[i] >= conf_thresh]
    IN [rows |-> boolean_index(boxes.rows, confidence_mask), cols |-> boxes.cols]

\* ---------------------------------------------------------------- ToBoxes2D
\* class_names: None, or a list of names
None == [is_none |-> TRUE, names |-> <<>>]
Names(names) == [is_none |-> FALSE, names |-> names]

\* paz.abstract.Box2D(coordinates, score, class_name): a detection
Box2D(coordinates, score, class_name) ==
    [coordinates |-> coordinates, score |-> score, class_name |-> class_name]

BoxesToBoxes2D(boxes, default_score) ==
    Returned([k \in 1..Len(boxes.rows) |->
        Box2D(coordinates_of(boxes.rows[k]), default_score, "None")])

\* arg_to_class[class_arg] of a missing key raises KeyError, and the list is lost
BoxesWithOneHotVectorsToBoxes2D(boxes, arg_to_class) ==
    IF \E k \in 1..Len(boxes.rows) :
            np_argmax(class_scores_of(boxes.rows[k])) \notin DOMAIN arg_to_class
    THEN Raised("KeyError", NoValue)
    ELSE Returned([k \in 1..Len(boxes.rows) |->
            LET box == boxes.rows[k]
                score == np_max(class_scores_of(box))
                class_arg == np_argmax(class_scores_of(box))
                class_name == arg_to_class[class_arg]
            IN Box2D(coordinates_of(box), score, class_name)])

BoxesWithClassArgToBoxes2D(boxes, arg_to_class, default_score) ==
    IF \E k \in 1..Len(boxes.rows) :
            boxes.rows[k][Len(boxes.rows[k])] \notin DOMAIN arg_to_class
    THEN Raised("KeyError", NoValue)
    ELSE Returned([k \in 1..Len(boxes.rows) |->
            LET box == boxes.rows[k]
                class_name == arg_to_class[box[Len(box)]]
            IN Box2D(coordinates_of(box), default_score, class_name)])

\* dict(zip(range(len(class_names)), class_names)), set only for given names
ToBoxes2D_init(class_names, one_hot_encoded, box_type, default_score) ==
    [class |-> "ToBoxes2D",
     has_arg_to_class |-> ~class_names.is_none,
     arg_to_class |-> [class_arg \in 0..(Len(class_names.names) - 1) |->
                            class_names.names[class_arg + 1]],
     one_hot_encoded |-> one_hot_encoded,
     box_type |-> box_type,
     default_score |-> default_score]

\* mutant: an unknown box type falls through to the plain conversion
ToBoxes2D_call_no_else(self, boxes) ==
    IF self.box_type = "BoxesWithOneHotVectors" THEN
        IF ~self.has_arg_to_class THEN Raised("AttributeError", NoValue)
        ELSE BoxesWithOneHotVectorsToBoxes2D(boxes, self.arg_to_class)
    ELSE IF self.box_type = "BoxesWithClassArg" THEN
        IF ~self.has_arg_to_class THEN Raised("AttributeError", NoValue)
        ELSE BoxesWithClassArgToBoxes2D(boxes, self.arg_to_class, self.default_score)
    ELSE BoxesToBoxes2D(boxes, self.default_score)

\* mutant: the one-hot conversion gets the fixed default score as well
ToBoxes2D_call_default_score(self, boxes) ==
    IF self.box_type = "Boxes" THEN BoxesToBoxes2D(boxes, self.default_score)
    ELSE IF self.box_type = "BoxesWithOneHotVectors" THEN
        IF ~self.has_arg_to_class THEN Raised("AttributeError", NoValue)
        ELSE LET converted == BoxesWithOneHotVectorsToBoxes2D(boxes, self.arg_to_class)
             IN IF converted.raised # "none" THEN converted
                ELSE Returned([k \in 1..Len(converted.value) |->
                        Box2D(converted.value[k].coordinates, self.default_score,
                              converted.value[k].class_name)])
    ELSE IF self.box_type = "BoxesWithClassArg" THEN
        IF ~self.has_arg_to_class THEN Raised("AttributeError", NoValue)
        ELSE BoxesWithClassArgToBoxes2D(boxes, self.arg_to_class, self.default_score)
    ELSE Raised("ValueError", <<"Invalid box type: ", self.box_type>>)

\* self.arg_to_class is read when the arguments of the conversion are built:
\* an instance made without class_names raises AttributeError there
ToBoxes2D_call(self, boxes) ==
    IF self.box_type = "Boxes" THEN BoxesToBoxes2D(boxes, self.default_score)
    ELSE IF self.box_type = "BoxesWithOneHotVectors" THEN
        IF ~self.has_arg_to_class THEN Raised("AttributeError", NoValue)
        ELSE BoxesWithOneHotVectorsToBoxes2D(boxes, self.arg_to_class)
    ELSE IF self.box_type = "BoxesWithClassArg" THEN
        IF ~self.has_arg_to_class THEN Raised("AttributeError", NoValue)
        ELSE BoxesWithClassArgToBoxes2D(boxes, self.arg_to_class, self.default_score)
    ELSE Raised("ValueError", <<"Invalid box type: ", self.box_type>>)

\* inputs of ToBoxes2D
KnownBoxTypes == {"Boxes", "BoxesWithOneHotVectors", "BoxesWithClassArg"}
BoxTypes == KnownBoxTypes \cup {"boxes", "Boxes2D"}
ClassNames == SubSeq(<<"person", "dog", "cat", "car">>, 1, MaxClasses)
DefaultScores == {DefaultScore, 50}
ClassArgRows == {b \o <<class_arg>> : b \in BoxSet, class_arg \in 0..(MaxClasses - 1)}
ClassArgArrays == {[rows |-> r, cols |-> 5] : r \in SeqsUpTo(ClassArgRows, MaxBoxes)}
ToBoxes2DInputs == BoxArrays(MaxClasses) \cup ClassArgArrays

\* ------------------------------------------------------------- ScaledResize
\* A float is a fraction [num, den] in lowest terms with den > 0.  The source
\* computes in float32; for the image sides and sizes drawn here float32 gives
\* the same scaled height and width as the exact fractions.
RECURSIVE gcd(_, _)
gcd(a, b) == IF b = 0 THEN a ELSE gcd(b, a % b)

Frac(n, d) == [num |-> n \div gcd(n, d), den |-> d \div gcd(n, d)]

\* x / y of two positive integers as float
divide(x, y) == Frac(x, y)

\* np.minimum(x, y)
minimum(x, y) == IF x.num * y.den <= y.num * x.den THEN x ELSE y

\* (n * x).astype('int32') of a non-negative product: the fraction is cut off
multiply_astype_int32(n, x) == (n * x.num) \div x.den

\* 1 / x
reciprocal(x) == Frac(x.den, x.num)

\* An image is [shape, data]: shape is <<height, width, channels>> and data[y][x]
\* is the value of the pixel, the same in every channel.
image_of(height, width, channels, value) ==
    [shape |-> <<height, width, channels>>,
     data |-> [y \in 1..height |-> [x \in 1..width |-> value]]]

\* np.zeros((height, width, channels))
zeros(height, width, channels) == image_of(height, width, channels, 0)

\* cv2.resize(image, shape): shape is (width, height); cv2 rejects an empty
\* target size.  A pixel of the result takes the source pixel it falls on
\* (cv2 interpolates; on the uniform images drawn here every rule agrees).
\* The result of an image of one channel has no channel axis: its shape is
\* (height, width).
resize_image(image, shape) ==
    IF shape[1] <= 0 \/ shape[2] <= 0 THEN Raised("cv2.error", NoValue)
    ELSE Returned(
        [shape |-> <<shape[2], shape[1]>>
                     \o (IF Len(image.shape) = 3 /\ image.shape[3] # 1
                         THEN <<image.shape[3]>> ELSE <<>>),
         data |-> [y \in 1..shape[2] |-> [x \in 1..shape[1] |->
            image.data[((y - 1) * image.shape[1]) \div shape[2] + 1]
                      [((x - 1) * image.shape[2]) \div shape[1] + 1]]]])

\* image[y0:y1, x0:x1, :]
slice(image, y0, y1, x0, x1) ==
    LET height == Max2(Min2(y1, image.shape[1]) - y0, 0)
        width == Max2(Min2(x1, image.shape[2]) - x0, 0)
    IN [shape |-> <<height, width, image.shape[3]>>,
        data |-> [y \in 1..height |-> [x \in 1..width |->
                    image.data[y0 + y][x0 + x]]]]

\* canvas[:patch.shape[0], :patch.shape[1], :patch.shape[2]] = patch
assign_top_left(canvas, patch) ==
    [shape |-> canvas.shape,
     data |-> [y \in 1..canvas.shape[1] |-> [x \in 1..canvas.shape[2] |->
        IF y <= patch.shape[1] /\ x <= patch.shape[2]
        THEN patch.data[y][x] ELSE canvas.data[y][x]]]]

\* image[np.newaxis]
newaxis(image) == [shape |-> <<1>> \o image.shape, data |-> image.data]

ScaledResize_init(image_size) ==
    [class |-> "ScaledResize", image_size |-> image_size]

\* the locals of ScaledResize.call up to the call of resize_image
ScaledResize_locals(self, image) ==
    LET height == image.shape[1]
        width == image.shape[2]
        image_scale_y == divide(self.image_size, height)
        image_scale_x == divide(self.image_size, width)
        image_scale == minimum(image_scale_x, image_scale_y)
    IN [crop_offset_y |-> 0,
        crop_offset_x |-> 0,
        image_scale |-> image_scale,
        scaled_height |-> multiply_astype_int32(height, image_scale),
        scaled_width |-> multiply_astype_int32(width, image_scale)]

\* ScaledResize.call(image): cv2.error leaves the call from resize_image, and
\* scaled_image[..., ..., :] raises IndexError on a resized image of two axes
ScaledResize_call(self, image) ==
    LET locals == ScaledResize_locals(self, image)
        resized == resize_image(image, <<locals.scaled_width, locals.scaled_height>>)
        scaled_image == slice(resized.value,
                              locals.crop_offset_y,
                              locals.crop_offset_y + self.image_size,
                              locals.crop_offset_x,
                              locals.crop_offset_x + self.image_size)
        output_images == assign_top_left(
                            zeros(self.image_size, self.image_size, image.shape[3]),
                            scaled_image)
    IN IF resized.raised # "none" THEN resized
       ELSE IF Len(resized.value.shape) < 3
       THEN Raised("IndexError", <<"too many indices for array">>)
       ELSE Returned([output_images |-> newaxis(output_images),
                      image_scale |-> reciprocal(locals.image_scale)])

\* inputs of ScaledResize
ImageSizes == 1..MaxImageSize
Images == {image_of(height, width, channels, value) :
            height \in 1..MaxSide, width \in 1..MaxSide,
            channels \in {1, 3}, value \in 0..MaxPixel}

\* -------------------------------------------------------------------- state
Init ==
    /\ op = "init"
    /\ args = NoValue
    /\ result = Returned(NoValue)
    /\ trace = NoValue
    /\ processor = NoProcessor

\* nms_per_class(box_data, nms_thresh, conf_thresh, top_k)
CallNmsPerClass ==
    /\ op = "init"
    /\ \E C \in NumClasses : \E box_data \in BoxArrays(C) :
       \E nms_thresh \in NmsThreshs, conf_thresh \in ConfThreshs, top_k \in TopKs :
        /\ op' = "nms_per_class"
        /\ args' = [box_data |-> box_data, nms_thresh |-> nms_thresh,
                    conf_thresh |-> conf_thresh, top_k |-> top_k]
        /\ result' = Returned(nms_per_class(box_data, nms_thresh, conf_thresh, top_k))
        /\ trace' = rows_per_class(box_data, nms_thresh, conf_thresh, top_k)
        /\ UNCHANGED processor

\* nms_per_class on the array of the end-to-end example, top_k left to default
CallNmsPerClassExample ==
    /\ op = "init"
    /\ op' = "nms_per_class_example"
    /\ args' = [box_data |-> ExampleBoxData, nms_thresh |-> DefaultNmsThresh,
                conf_thresh |-> DefaultConfThresh, top_k |-> DefaultTopK]
    /\ result' = Returned(nms_per_class(ExampleBoxData, DefaultNmsThresh,
                                        DefaultConfThresh, DefaultTopK))
    /\ trace' = rows_per_class(ExampleBoxData, DefaultNmsThresh,
                               DefaultConfThresh, DefaultTopK)
    /\ UNCHANGED processor

\* NonMaximumSuppressionPerClass(nms_thresh, conf_thresh)
ConstructNonMaximumSuppressionPerClass ==
    /\ op = "init"
    /\ \E nms_thresh \in NmsThreshs, conf_thresh \in ConfThreshs :
        /\ op' = "NonMaximumSuppressionPerClass.__init__"
        /\ args' = [nms_thresh |-> nms_thresh, conf_thresh |-> conf_thresh]
        /\ processor' = NonMaximumSuppressionPerClass_init(nms_thresh, conf_thresh)
        /\ result' = Returned(NoValue)
        /\ trace' = NoValue

\* NonMaximumSuppressionPerClass.call(boxes)
CallNonMaximumSuppressionPerClass ==
    /\ op = "NonMaximumSuppressionPerClass.__init__"
    /\ \E C \in NumClasses : \E boxes \in BoxArrays(C) :
        /\ op' = "NonMaximumSuppressionPerClass.call"
        /\ args' = [box_data |-> boxes, nms_thresh |-> processor.nms_thresh,
                    conf_thresh |-> processor.conf_thresh, top_k |-> DefaultTopK]
        /\ result' = Returned(NonMaximumSuppressionPerClass_call(processor, boxes))
        /\ trace' = rows_per_class(boxes, processor.nms_thresh,
                                   processor.conf_thresh, DefaultTopK)
        /\ UNCHANGED processor

NextNMS ==
    \/ CallNmsPerClass
    \/ CallNmsPerClassExample
    \/ ConstructNonMaximumSuppressionPerClass
    \/ CallNonMaximumSuppressionPerClass

SpecNMS == Init /\ [][NextNMS]_vars

\* filter_boxes(boxes, conf_thresh)
CallFilterBoxes ==
    /\ op = "init"
    /\ \E C \in NumClasses : \E boxes \in BoxArrays(C) : \E conf_thresh \in ConfThreshs :
        /\ op' = "filter_boxes"
        /\ args' = [boxes |-> boxes, conf_thresh |-> conf_thresh]
        /\ result' = Returned(filter_boxes(boxes, conf_thresh))
        /\ trace' = NoValue
        /\ UNCHANGED processor

\* filter_boxes on the array the first call returned, with the same threshold;
\* trace keeps the arguments of the first call
CallFilterBoxesAgain ==
    /\ op = "filter_boxes"
    /\ op' = "filter_boxes_again"
    /\ args' = [boxes |-> result.value, conf_thresh |-> args.conf_thresh]
    /\ result' = Returned(filter_boxes(result.value, args.conf_thresh))
    /\ trace' = args
    /\ UNCHANGED processor

NextFilter ==
    \/ CallFilterBoxes
    \/ CallFilterBoxesAgain

SpecFilter == Init /\ [][NextFilter]_vars

\* ToBoxes2D(class_names, one_hot_encoded, box_type, default_score)
ConstructToBoxes2D ==
    /\ op = "init"
    /\ \E class_names \in {None, Names(ClassNames)}, box_type \in BoxTypes,
          default_score \in DefaultScores :
        /\ op' = "ToBoxes2D.__init__"
        /\ args' = [class_names |-> class_names, one_hot_encoded |-> FALSE,
                    box_type |-> box_type, default_score |-> default_score]
        /\ processor' = ToBoxes2D_init(class_names, FALSE, box_type, default_score)
        /\ result' = Returned(NoValue)
        /\ trace' = NoValue

\* ToBoxes2D.call(boxes)
CallToBoxes2D ==
    /\ op = "ToBoxes2D.__init__"
    /\ \E boxes \in ToBoxes2DInputs :
        /\ op' = "ToBoxes2D.call"
        /\ args' = [boxes |-> boxes]
        /\ result' = ToBoxes2D_call(processor, boxes)
        /\ trace' = NoValue
        /\ UNCHANGED processor

NextToBoxes2D ==
    \/ ConstructToBoxes2D
    \/ CallToBoxes2D

SpecToBoxes2D == Init /\ [][NextToBoxes2D]_vars

\* ScaledResize(image_size)
ConstructScaledResize ==
    /\ op = "init"
    /\ \E image_size \in ImageSizes :
        /\ op' = "ScaledResize.__init__"
        /\ args' = [image_size |-> image_size]
        /\ processor' = ScaledResize_init(image_size)
        /\ result' = Returned(NoValue)
        /\ trace' = NoValue

\* ScaledResize.call(image); trace keeps the locals of the call
CallScaledResize ==
    /\ op = "ScaledResize.__init__"
    /\ \E image \in Images :
        /\ op' = "ScaledResize.call"
        /\ args' = [image |-> image]
        /\ result' = ScaledResize_call(processor, image)
        /\ trace' = ScaledResize_locals(processor, image)
        /\ UNCHANGED processor

NextResize ==
    \/ ConstructScaledResize
    \/ CallScaledResize

SpecResize == Init /\ [][NextResize]_vars

\* ------------------------------------------------------------------- claims
NmsOps == {"nms_per_class", "nms_per_class_example",
           "NonMaximumSuppressionPerClass.call"}

\* the number of rows the loop emitted before it reached class_arg
RECURSIVE RowsBefore(_, _)
RowsBefore(counts, class_arg) ==
    IF class_arg = 0 THEN 0
    ELSE RowsBefore(counts, class_arg - 1) + counts[class_arg - 1]

\* the rows of the output emitted for class_arg
ClassSegment(class_arg) ==
    SubSeq(result.value.rows,
           RowsBefore(trace, class_arg) + 1,
           RowsBefore(trace, class_arg) + trace[class_arg])

\* the candidates of class_arg: the positions of the input rows that pass conf_thresh
Candidates(class_arg) ==
    {i \in 1..Len(args.box_data.rows) :
        args.box_data.rows[i][5 + class_arg] >= args.conf_thresh}

\* C1: the output of nms_per_class never holds two rows of the same class whose
\* boxes overlap with an IoU above nms_thresh.
C1_NoOverlapWithinClass ==
    op \in NmsOps =>
        \A class_arg \in DOMAIN trace :
            LET segment == ClassSegment(class_arg) IN
            \A p \in 1..Len(segment) : \A q \in 1..Len(segment) :
                p # q => ~iou_above(coordinates_of(segment[p]),
                                    coordinates_of(segment[q]), args.nms_thresh)

\* two candidates of one class overlapped above the threshold and one was dropped
C1_Witness ==
    /\ op = "nms_per_class"
    /\ args.top_k >= 2
    /\ \E class_arg \in DOMAIN trace :
        /\ Candidates(class_arg) = {1, 2}
        /\ iou_above(coordinates_of(args.box_data.rows[1]),
                     coordinates_of(args.box_data.rows[2]), args.nms_thresh)
        /\ Len(ClassSegment(class_arg)) = 1

\* C2: nms_per_class emits at most top_k rows for every class, called directly
\* or through NonMaximumSuppressionPerClass (where top_k is its default).
C2_AtMostTopKPerClass ==
    op \in NmsOps =>
        /\ Len(result.value.rows) = RowsBefore(trace, result.value.cols - 4)
        /\ \A class_arg \in DOMAIN trace : trace[class_arg] <= args.top_k

\* two candidates that do not suppress each other, and top_k = 1 kept one
C2_Witness ==
    /\ op = "nms_per_class"
    /\ args.top_k = 1
    /\ \E class_arg \in DOMAIN trace :
        /\ Candidates(class_arg) = {1, 2}
        /\ ~iou_above(coordinates_of(args.box_data.rows[1]),
                      coordinates_of(args.box_data.rows[2]), args.nms_thresh)
        /\ trace[class_arg] = 1

\* C3: on the example array with nms_thresh 0.45 and conf_thresh 0.01 only the
\* box [0,0,10,10] survives for class 0; the box [1,1,9,9] is suppressed.
C3_ExampleKeepsHigherScore ==
    op = "nms_per_class_example" =>
        /\ result.raised = "none"
        /\ ClassSegment(0) = << <<0, 0, 10, 10, 90, 10>> >>
        /\ \A p \in 1..Len(ClassSegment(0)) :
                coordinates_of(ClassSegment(0)[p]) # <<1, 1, 9, 9>>

\* the example ran: both boxes were candidates of class 0 and overlap above 0.45
C3_Witness ==
    /\ op = "nms_per_class_example"
    /\ args.box_data = ExampleBoxData
    /\ args.nms_thresh = 45 /\ args.conf_thresh = 1
    /\ Candidates(0) = {1, 2}
    /\ iou_above(<<0, 0, 10, 10>>, <<1, 1, 9, 9>>, 45)
    /\ trace[0] = 1

\* every class score of every row is below conf_thresh (also when there is no row)
AllBelowConfThresh ==
    \A i \in 1..Len(args.box_data.rows) : \A j \in 5..args.box_data.cols :
        args.box_data.rows[i][j] < args.conf_thresh

\* C4: with no input row, or with every class score below conf_thresh,
\* nms_per_class returns, without raising, zero rows of the input's width.
C4_EmptyOutputKeepsWidth ==
    (op \in NmsOps /\ AllBelowConfThresh) =>
        /\ result.raised = "none"
        /\ result.value.rows = <<>>
        /\ result.value.cols = args.box_data.cols

\* a non-empty array whose scores are all below the threshold gave zero rows
C4_Witness ==
    /\ op = "nms_per_class"
    /\ Len(args.box_data.rows) = MaxBoxes
    /\ AllBelowConfThresh
    /\ result = Returned(empty_array(args.box_data.cols))

\* the positions of the rows some class score of which reaches conf_thresh
KeptPositions(boxes, conf_thresh) ==
    {i \in 1..Len(boxes.rows) :
        \E j \in 5..boxes.cols : boxes.rows[i][j] >= conf_thresh}

\* the k-th smallest element of a set of positions
KthOf(S, k) == CHOOSE i \in S : Cardinality({j \in S : j < i}) = k - 1

\* C5: filter_boxes keeps exactly the rows whose maximum class score is at least
\* conf_thresh, in their order, each row decided alone: filtering a
\* concatenation is concatenating the filtered parts.
C5_FilterIsRowPredicate ==
    op = "filter_boxes" =>
        LET boxes == args.boxes
            kept == KeptPositions(boxes, args.conf_thresh)
            out == result.value
        IN /\ result.raised = "none"
           /\ out.cols = boxes.cols
           /\ Len(out.rows) = Cardinality(kept)
           /\ \A k \in 1..Len(out.rows) : out.rows[k] = boxes.rows[KthOf(kept, k)]
           /\ \A n \in 0..Len(boxes.rows) :
                LET front == [rows |-> SubSeq(boxes.rows, 1, n), cols |-> boxes.cols]
                    back == [rows |-> SubSeq(boxes.rows, n + 1, Len(boxes.rows)),
                             cols |-> boxes.cols]
                IN out = concatenate(filter_boxes(front, args.conf_thresh),
                                     filter_boxes(back, args.conf_thresh))

\* a row whose maximum equals the threshold was kept and its neighbour dropped
C5_Witness ==
    /\ op = "filter_boxes"
    /\ Len(args.boxes.rows) = 2
    /\ np_max(class_scores_of(args.boxes.rows[2])) = args.conf_thresh
    /\ np_max(class_scores_of(args.boxes.rows[1])) < args.conf_thresh
    /\ result.value.rows = <<args.boxes.rows[2]>>

\* C6: filter_boxes is idempotent: filtering its own output with the same
\* threshold returns that output.
C6_FilterIdempotent ==
    op = "filter_boxes_again" => result.value = args.boxes

\* the second call ran on an output from which the first call had removed a row
C6_Witness ==
    /\ op = "filter_boxes_again"
    /\ args.boxes = filter_boxes(trace.boxes, trace.conf_thresh)
    /\ Len(trace.boxes.rows) > Len(args.boxes.rows)
    /\ Len(args.boxes.rows) > 0
    /\ result.value = args.boxes

\* C7: ToBoxes2D.call raises ValueError naming the box type for every box_type
\* other than the three known ones, whatever the input, the empty one included,
\* and returns no detection; the constructor accepts the box type without raising.
C7_UnknownBoxTypeRaises ==
    /\ op = "ToBoxes2D.__init__" => result.raised = "none"
    /\ (op = "ToBoxes2D.call" /\ processor.box_type \notin KnownBoxTypes) =>
            result = Raised("ValueError", <<"Invalid box type: ", processor.box_type>>)

\* an instance with an unknown box type was built and then called with no box
C7_Witness ==
    /\ op = "ToBoxes2D.call"
    /\ processor.box_type = "boxes"
    /\ args.boxes.rows = <<>>
    /\ result.raised = "ValueError"

\* the class arguments the input asks arg_to_class for, under the box type
NamedClassArgs(self, boxes) ==
    IF self.box_type = "BoxesWithOneHotVectors"
    THEN {np_argmax(class_scores_of(boxes.rows[k])) : k \in 1..Len(boxes.rows)}
    ELSE IF self.box_type = "BoxesWithClassArg"
    THEN {boxes.rows[k][boxes.cols] : k \in 1..Len(boxes.rows)}
    ELSE {}

\* class names were given and name every class argument of the input
ClassesAreNamed(self, boxes) ==
    self.box_type \in {"BoxesWithOneHotVectors", "BoxesWithClassArg"} =>
        /\ self.has_arg_to_class
        /\ NamedClassArgs(self, boxes) \subseteq DOMAIN self.arg_to_class

\* C8: ToBoxes2D gives one detection per row, in order, with the first four
\* columns as coordinates: 'Boxes' with the default score and no class,
\* 'BoxesWithOneHotVectors' with the class of the first maximal score column and
\* that score, 'BoxesWithClassArg' with the class of the last column and the
\* default score (where the class arguments have names).
C8_ConversionPolicies ==
    (/\ op = "ToBoxes2D.call"
     /\ processor.box_type \in KnownBoxTypes
     /\ ClassesAreNamed(processor, args.boxes)) =>
        LET rows == args.boxes.rows
            cols == args.boxes.cols
            out == result.value
        IN /\ result.raised = "none"
           /\ Len(out) = Len(rows)
           /\ \A k \in 1..Len(rows) :
                /\ out[k].coordinates = <<rows[k][1], rows[k][2], rows[k][3], rows[k][4]>>
                /\ processor.box_type = "Boxes" =>
                        /\ out[k].score = processor.default_score
                        /\ out[k].class_name = "None"
                /\ processor.box_type = "BoxesWithOneHotVectors" =>
                        \E j \in 5..cols :
                            /\ \A i \in 5..cols : rows[k][i] <= rows[k][j]
                            /\ \A i \in 5..(j - 1) : rows[k][i] < rows[k][j]
                            /\ out[k].score = rows[k][j]
                            /\ out[k].class_name = processor.arg_to_class[j - 5]
                /\ processor.box_type = "BoxesWithClassArg" =>
                        /\ out[k].score = processor.default_score
                        /\ out[k].class_name = processor.arg_to_class[rows[k][cols]]

\* a one-hot array of two rows with different classes was converted
C8_Witness ==
    /\ op = "ToBoxes2D.call"
    /\ processor.box_type = "BoxesWithOneHotVectors"
    /\ processor.default_score # DefaultScore
    /\ Len(args.boxes.rows) = 2
    /\ result.raised = "none"
    /\ result.value[1].class_name = "person"
    /\ result.value[2].class_name = "dog"
    /\ result.value[1].score # result.value[2].score

\* s = min(S / h, S / w) of the call in the state, as the claims define it
ClaimedScale ==
    LET S == processor.image_size
        h == args.image.shape[1]
        w == args.image.shape[2]
    IN IF h >= w THEN Frac(S, h) ELSE Frac(S, w)

\* floor(n * x) for a fraction x
FloorOfProduct(n, x) == (n * x.num) \div x.den

\* C9 (as claimed): ScaledResize.call scales both axes by s = min(S/h, S/w) and
\* returns, next to the image, the factor 1/s, which takes a coordinate of the
\* resized image back to the original one.
C9_ReturnsInverseScale ==
    op = "ScaledResize.call" =>
        /\ trace.scaled_height = FloorOfProduct(args.image.shape[1], ClaimedScale)
        /\ trace.scaled_width = FloorOfProduct(args.image.shape[2], ClaimedScale)
        /\ result.raised = "none"
        /\ result.value.image_scale.num * ClaimedScale.num
                = result.value.image_scale.den * ClaimedScale.den
        /\ \A coordinate \in 0..MaxSide :
                (coordinate * ClaimedScale.num * result.value.image_scale.num)
                    = coordinate * ClaimedScale.den * result.value.image_scale.den

\* the canvas of a call that returned
Canvas == result.value.output_images

\* C10 (as claimed): for every image and target S the call returns a canvas of
\* exactly S x S that holds the whole resized image, of floor(h*s) x floor(w*s)
\* pixels, both at most S, in its top-left corner and zeros everywhere else.
C10_SquareCanvasTopLeft ==
    op = "ScaledResize.call" =>
        LET S == processor.image_size
            sh == FloorOfProduct(args.image.shape[1], ClaimedScale)
            sw == FloorOfProduct(args.image.shape[2], ClaimedScale)
            resized == resize_image(args.image, <<sw, sh>>)
        IN /\ sh <= S /\ sw <= S
           /\ result.raised = "none"
           /\ Canvas.shape = <<1, S, S, args.image.shape[3]>>
           /\ \A y \in 1..S : \A x \in 1..S :
                Canvas.data[y][x] =
                    IF y <= sh /\ x <= sw THEN resized.value.data[y][x] ELSE 0

\* ---------------------------------------------------------------- scale_box
\* The arrays of scale_box hold floats: every entry is a fraction [num, den]
\* in lowest terms with den > 0, and the products are exact.

\* a float from the quotient of two integers, the second not zero
Rat(n, d) == IF d < 0 THEN Frac(0 - n, 0 - d) ELSE Frac(n, d)

\* x * y
multiply(x, y) == Rat(x.num * y.num, x.den * y.den)

\* 1 / x for x # 0, as the caller of the second scale_box computes it
inverse_scale(x) == Rat(x.den, x.num)

\* image_scales=None
NoScales == [num |-> 0, den |-> 0]

\* predictions[:, :4] * image_scales[np.newaxis][np.newaxis]
scale_coordinates(row, scales) ==
    [c \in 1..Min2(4, Len(row)) |-> multiply(row[c], scales)]

\* mutant: the scale reaches every column
scale_box_all_columns(predictions, image_scales) ==
    IF image_scales # NoScales
    THEN [rows |-> [k \in 1..Len(predictions.rows) |->
                      [c \in 1..Len(predictions.rows[k]) |->
                          multiply(predictions.rows[k][c], image_scales)]],
          cols |-> predictions.cols]
    ELSE predictions

\* scale_box(predictions, image_scales=None)
scale_box(predictions, image_scales) ==
    IF image_scales # NoScales
    THEN [rows |-> [k \in 1..Len(predictions.rows) |->
                      scale_coordinates(predictions.rows[k], image_scales)
                          \o class_scores_of(predictions.rows[k])],
          cols |-> predictions.cols]
    ELSE predictions

\* ScaleBox(scales)
ScaleBox_init(scales) == [class |-> "ScaleBox", scales |-> scales]

\* ScaleBox.call(boxes)
ScaleBox_call(self, boxes) == Returned(scale_box(boxes, self.scales))

\* the float array of an integer array: coordinates as they are, scores as
\* hundredths
as_float(box_data) ==
    [rows |-> [k \in 1..Len(box_data.rows) |->
                 [c \in 1..Len(box_data.rows[k]) |->
                     IF c <= 4 THEN Rat(box_data.rows[k][c], 1)
                     ELSE Rat(box_data.rows[k][c], 100)]],
     cols |-> box_data.cols]

\* prediction arrays without and with a class column
Predictions == {as_float(box_data) : box_data \in BoxArrays(0) \cup BoxArrays(1)}

\* scales: enlarging, reducing, not a power of two, negative
Scales == {Rat(2, 1), Rat(1, 2), Rat(3, 1), Rat(2, 3), Rat(0 - 1, 1), Rat(1, 1)}

\* scale_box(predictions, image_scales)
CallScaleBox ==
    /\ op = "init"
    /\ \E predictions \in Predictions, image_scales \in Scales \cup {NoScales} :
        /\ op' = "scale_box"
        /\ args' = [predictions |-> predictions, image_scales |-> image_scales]
        /\ result' = Returned(scale_box(predictions, image_scales))
        /\ trace' = NoValue
        /\ UNCHANGED processor

\* scale_box(scale_box(predictions, s), 1 / s): the second call takes the
\* first one's output; trace keeps the first call's arguments
CallScaleBoxBack ==
    /\ op = "scale_box"
    /\ args.image_scales # NoScales
    /\ op' = "scale_box_back"
    /\ args' = [predictions |-> result.value,
                image_scales |-> inverse_scale(args.image_scales)]
    /\ result' = Returned(scale_box(result.value, inverse_scale(args.image_scales)))
    /\ trace' = args
    /\ UNCHANGED processor

\* ScaleBox(scales)
ConstructScaleBox ==
    /\ op = "init"
    /\ \E scales \in Scales :
        /\ op' = "ScaleBox.__init__"
        /\ args' = [scales |-> scales]
        /\ processor' = ScaleBox_init(scales)
        /\ result' = Returned(NoValue)
        /\ trace' = NoValue

\* ScaleBox.call(boxes)
CallScaleBoxProcessor ==
    /\ op = "ScaleBox.__init__"
    /\ \E boxes \in Predictions :
        /\ op' = "ScaleBox.call"
        /\ args' = [predictions |-> boxes, image_scales |-> processor.scales]
        /\ result' = ScaleBox_call(processor, boxes)
        /\ trace' = NoValue
        /\ UNCHANGED processor

NextScaleBox ==
    \/ CallScaleBox
    \/ CallScaleBoxBack
    \/ ConstructScaleBox
    \/ CallScaleBoxProcessor

SpecScaleBox == Init /\ [][NextScaleBox]_vars

\* the value of a float, for comparing two of them
SameValue(x, y) == x.num * y.den = y.num * x.den

\* C11: scale_box(scale_box(P, s), 1/s) has the coordinates of P in its first
\* four columns, and no call of scale_box changes a column from index 4 on.
C11_ScaleBoxRoundTrip ==
    /\ op \in {"scale_box", "scale_box_back", "ScaleBox.call"} =>
        /\ result.raised = "none"
        /\ Len(result.value.rows) = Len(args.predictions.rows)
        /\ result.value.cols = args.predictions.cols
        /\ \A k \in 1..Len(args.predictions.rows) :
            /\ Len(result.value.rows[k]) = Len(args.predictions.rows[k])
            /\ \A c \in 5..Len(args.predictions.rows[k]) :
                result.value.rows[k][c] = args.predictions.rows[k][c]
    /\ op = "scale_box_back" =>
        /\ Len(result.value.rows) = Len(trace.predictions.rows)
        /\ \A k \in 1..Len(trace.predictions.rows) :
            /\ Len(result.value.rows[k]) = Len(trace.predictions.rows[k])
            /\ \A c \in 1..Len(trace.predictions.rows[k]) :
                SameValue(result.value.rows[k][c], trace.predictions.rows[k][c])

\* a round trip through a scale that is no power of two, of a row with a class
\* score, whose coordinates the first call changed
C11_Witness ==
    /\ op = "scale_box_back"
    /\ trace.image_scales = Rat(2, 3)
    /\ Len(trace.predictions.rows) = 2
    /\ trace.predictions.cols = 5
    /\ args.predictions.rows[1][3] # trace.predictions.rows[1][3]
    /\ result.value.rows[1][3] = trace.predictions.rows[1][3]
    /\ result.value.rows[1][5] = Rat(90, 100)

\* --------------------------------------------------------- project_to_image
\* Here a numpy array is [shape, data]: shape is the tuple of its dimensions
\* and data holds its entries in row-major order.  The inputs hold integers;
\* a quotient is a fraction [num, den] as above, with three more values for
\* what numpy's division gives at zero: [1, 0] is inf, [-1, 0] is -inf and
\* [0, 0] is nan.

\* the most points in one array
MaxPoints == 2

array(shape, data) == [shape |-> shape, data |-> data]

\* a[i, j] of a 2-D array, i and j counted from 1
at(a, i, j) == a.data[(i - 1) * a.shape[2] + j]

\* np.identity(n)
identity(n) ==
    array(<<n, n>>, [k \in 1..(n * n) |-> IF (k - 1) \div n = (k - 1) % n THEN 1 ELSE 0])

\* np.zeros((n,))
zeros_vector(n) == array(<<n>>, [k \in 1..n |-> 0])

inf == [num |-> 1, den |-> 0]
minus_inf == [num |-> 0 - 1, den |-> 0]
nan == [num |-> 0, den |-> 0]

is_finite(q) == q.den # 0

\* x / z of two numbers of a float array: numpy warns at z = 0 and gives inf,
\* -inf or nan
true_divide(x, z) ==
    IF z # 0 THEN Rat(x, z)
    ELSE IF x > 0 THEN inf ELSE IF x < 0 THEN minus_inf ELSE nan

\* focal_length * q
times(focal_length, q) ==
    IF is_finite(q) THEN Rat(focal_length * q.num, q.den)
    ELSE IF q = nan \/ focal_length = 0 THEN nan
    ELSE IF focal_length > 0 THEN q
    ELSE IF q = inf THEN minus_inf ELSE inf

\* q + image_center
plus(q, image_center) ==
    IF is_finite(q) THEN Rat(q.num + image_center * q.den, q.den) ELSE q

\* np.matmul(rotation, points3D.T).T for rotation (3, 3) and points3D (N, 3):
\* row i is rotation . points3D[i]
matmul_transposed(rotation, points3D) ==
    array(points3D.shape,
          [k \in 1..(3 * points3D.shape[1]) |->
              LET i == (k - 1) \div 3 + 1
                  r == ((k - 1) % 3) + 1
              IN at(rotation, r, 1) * at(points3D, i, 1)
                 + at(rotation, r, 2) * at(points3D, i, 2)
                 + at(rotation, r, 3) * at(points3D, i, 3)])

\* mutant: np.matmul(points3D, rotation), row i is points3D[i] . rotation
matmul_untransposed(rotation, points3D) ==
    array(points3D.shape,
          [k \in 1..(3 * points3D.shape[1]) |->
              LET i == (k - 1) \div 3 + 1
                  r == ((k - 1) % 3) + 1
              IN at(rotation, 1, r) * at(points3D, i, 1)
                 + at(rotation, 2, r) * at(points3D, i, 2)
                 + at(rotation, 3, r) * at(points3D, i, 3)])

\* a + b of numpy for a of shape (N, 3) and b with len(b) = 3 and at most two
\* dimensions: b of shape (3,) is added to every row; b of shape (3, 1) or
\* (3, 3) broadcasts against a when N is 1 or 3, to a sum of shape (3, 3);
\* every other pair of shapes raises ValueError (operands could not be
\* broadcast together)
broadcast_add(a, b) ==
    IF b.shape = <<3>>
    THEN Returned(array(a.shape,
            [k \in 1..(3 * a.shape[1]) |-> a.data[k] + b.data[((k - 1) % 3) + 1]]))
    ELSE IF /\ Len(b.shape) = 2 /\ b.shape[1] = 3 /\ b.shape[2] \in {1, 3}
            /\ a.shape[1] \in {1, 3}
    THEN Returned(array(<<3, 3>>,
            [k \in 1..9 |->
                LET i == (k - 1) \div 3 + 1
                    j == ((k - 1) % 3) + 1
                IN at(a, IF a.shape[1] = 1 THEN 1 ELSE i, j)
                   + at(b, i, IF b.shape[2] = 1 THEN 1 ELSE j)]))
    ELSE Raised("ValueError", <<"operands could not be broadcast together">>)

\* lines 198-206: split into x, y, z, divide by z, scale, shift, concatenate
perspective(points3D, camera_intrinsics) ==
    LET x_focal_length == at(camera_intrinsics, 1, 1)
        y_focal_length == at(camera_intrinsics, 2, 2)
        x_image_center == at(camera_intrinsics, 1, 3)
        y_image_center == at(camera_intrinsics, 2, 3)
    IN array(<<points3D.shape[1], 2>>,
             [k \in 1..(2 * points3D.shape[1]) |->
                 LET i == (k - 1) \div 2 + 1
                     x == at(points3D, i, 1)
                     y == at(points3D, i, 2)
                     z == at(points3D, i, 3)
                 IN IF k % 2 = 1
                    THEN plus(times(x_focal_length, true_divide(x, z)), x_image_center)
                    ELSE plus(times(y_focal_length, true_divide(y, z)), y_image_center)])

\* mutant: len(translation) is asked for before the shape of the rotation
project_to_image_translation_first(rotation, translation, points3D, camera_intrinsics) ==
    IF translation.shape = <<>>
    THEN Raised("TypeError", <<"len() of unsized object">>)
    ELSE IF translation.shape[1] # 3
    THEN Raised("ValueError", <<"Translation vector is not of length 3">>)
    ELSE IF rotation.shape # <<3, 3>>
    THEN Raised("ValueError", <<"Rotation matrix is not of shape (3, 3)">>)
    ELSE IF Len(points3D.shape) # 2
    THEN Raised("ValueError", <<"Points3D should have a shape (num_points, 3)">>)
    ELSE IF points3D.shape[2] # 3
    THEN Raised("ValueError", <<"Points3D should have a shape (num_points, 3)">>)
    ELSE LET moved == broadcast_add(matmul_transposed(rotation, points3D), translation)
         IN IF moved.raised # "none" THEN moved
            ELSE Returned(perspective(moved.value, camera_intrinsics))

\* mutant: the points are multiplied from the left
project_to_image_untransposed(rotation, translation, points3D, camera_intrinsics) ==
    IF rotation.shape # <<3, 3>>
    THEN Raised("ValueError", <<"Rotation matrix is not of shape (3, 3)">>)
    ELSE IF translation.shape = <<>>
    THEN Raised("TypeError", <<"len() of unsized object">>)
    ELSE IF translation.shape[1] # 3
    THEN Raised("ValueError", <<"Translation vector is not of length 3">>)
    ELSE IF Len(points3D.shape) # 2
    THEN Raised("ValueError", <<"Points3D should have a shape (num_points, 3)">>)
    ELSE IF points3D.shape[2] # 3
    THEN Raised("ValueError", <<"Points3D should have a shape (num_points, 3)">>)
    ELSE LET moved == broadcast_add(matmul_untransposed(rotation, points3D), translation)
         IN IF moved.raised # "none" THEN moved
            ELSE Returned(perspective(moved.value, camera_intrinsics))

\* project_to_image(rotation, translation, points3D, camera_intrinsics);
\* len() of an array without dimensions raises TypeError
project_to_image(rotation, translation, points3D, camera_intrinsics) ==
    IF rotation.shape # <<3, 3>>
    THEN Raised("ValueError", <<"Rotation matrix is not of shape (3, 3)">>)
    ELSE IF translation.shape = <<>>
    THEN Raised("TypeError", <<"len() of unsized object">>)
    ELSE IF translation.shape[1] # 3
    THEN Raised("ValueError", <<"Translation vector is not of length 3">>)
    ELSE IF Len(points3D.shape) # 2
    THEN Raised("ValueError", <<"Points3D should have a shape (num_points, 3)">>)
    ELSE IF points3D.shape[2] # 3
    THEN Raised("ValueError", <<"Points3D should have a shape (num_points, 3)">>)
    ELSE LET moved == broadcast_add(matmul_transposed(rotation, points3D), translation)
         IN IF moved.raised # "none" THEN moved
            ELSE Returned(perspective(moved.value, camera_intrinsics))

\* rotations: identity, a quarter turn about z, a half turn about x
Rotations ==
    {identity(3),
     array(<<3, 3>>, <<0, 0 - 1, 0,  1, 0, 0,  0, 0, 1>>),
     array(<<3, 3>>, <<1, 0, 0,  0, 0 - 1, 0,  0, 0, 0 - 1>>)}

\* arrays that are no (3, 3) matrix
NotRotations ==
    {identity(2), identity(4), zeros_vector(3),
     array(<<3, 4>>, [k \in 1..12 |-> 0]), array(<<1, 3, 3>>, identity(3).data)}

Translations ==
    {zeros_vector(3), array(<<3>>, <<1, 0, 2>>), array(<<3>>, <<0, 1, 0 - 1>>)}

\* arrays that are no vector of three components: the first four have
\* another length, the last three have length 3 and more than one dimension
NotTranslations ==
    {array(<<>>, <<1>>), zeros_vector(2), zeros_vector(4),
     array(<<1, 3>>, <<1, 0, 2>>),
     array(<<3, 1>>, <<1, 0, 2>>), array(<<3, 2>>, <<1, 0, 0, 1, 2, 2>>),
     array(<<3, 3>>, <<1, 0, 2,  0, 0, 1,  1, 1, 1>>)}

Points == {<<1, 2, 1>>, <<2, 0 - 1, 2>>, <<0, 0, 0>>, <<1, 1, 0>>}

RECURSIVE ravel(_)
ravel(rows) == IF rows = <<>> THEN <<>> ELSE Head(rows) \o ravel(Tail(rows))

Points3D ==
    {array(<<Len(rows), 3>>, ravel(rows)) : rows \in SeqsUpTo(Points, MaxPoints)}

\* arrays that are not of shape (num_points, 3)
NotPoints3D ==
    {array(<<3>>, <<1, 2, 1>>), array(<<1, 2>>, <<1, 2>>),
     array(<<1, 4>>, <<1, 2, 1, 1>>), array(<<1, 3, 1>>, <<1, 2, 1>>),
     array(<<>>, <<1>>)}

\* camera_intrinsics with focal lengths fx, fy and image center (cx, cy)
intrinsics(fx, fy, cx, cy) == array(<<3, 3>>, <<fx, 0, cx,  0, fy, cy,  0, 0, 1>>)

Cameras ==
    {intrinsics(1, 1, 0, 0), intrinsics(2, 3, 1, 0), intrinsics(2, 2, 1, 2)}

\* project_to_image(rotation, translation, points3D, camera_intrinsics)
CallProjectToImage ==
    /\ op = "init"
    /\ \E rotation \in Rotations \cup NotRotations,
          translation \in Translations \cup NotTranslations,
          points3D \in Points3D \cup NotPoints3D,
          camera_intrinsics \in Cameras :
        /\ op' = "project_to_image"
        /\ args' = [rotation |-> rotation, translation |-> translation,
                    points3D |-> points3D, camera_intrinsics |-> camera_intrinsics]
        /\ result' = project_to_image(rotation, translation, points3D, camera_intrinsics)
        /\ trace' = NoValue
        /\ UNCHANGED processor

\* the scenario of the spec: identity rotation, zero translation, fx = fy = 1,
\* cx = cy = 0 and the point (0, 0, 5)
CallProjectToImageExample ==
    /\ op = "init"
    /\ op' = "project_to_image"
    /\ args' = [rotation |-> identity(3), translation |-> zeros_vector(3),
                points3D |-> array(<<1, 3>>, <<0, 0, 5>>),
                camera_intrinsics |-> intrinsics(1, 1, 0, 0)]
    /\ result' = project_to_image(identity(3), zeros_vector(3),
                                  array(<<1, 3>>, <<0, 0, 5>>), intrinsics(1, 1, 0, 0))
    /\ trace' = NoValue
    /\ UNCHANGED processor

NextProject ==
    \/ CallProjectToImage
    \/ CallProjectToImageExample

SpecProject == Init /\ [][NextProject]_vars

\* the arguments of the call in the state are a (3, 3) rotation, a translation
\* of shape (3,) and points of shape (num_points, 3)
ValidProjectionArguments ==
    /\ args.rotation.shape = <<3, 3>>
    /\ args.translation.shape = <<3>>
    /\ Len(args.points3D.shape) = 2
    /\ args.points3D.shape[2] = 3

\* coordinate c of R . p + t for point i of the call in the state
CameraPoint(i, c) ==
    args.rotation.data[3 * (c - 1) + 1] * args.points3D.data[3 * (i - 1) + 1]
    + args.rotation.data[3 * (c - 1) + 2] * args.points3D.data[3 * (i - 1) + 2]
    + args.rotation.data[3 * (c - 1) + 3] * args.points3D.data[3 * (i - 1) + 3]
    + args.translation.data[c]

\* C12: project_to_image raises ValueError whenever rotation is not of shape
\* (3, 3), whatever the other arguments are, and returns no projection.
C12_RotationShapeRaises ==
    (op = "project_to_image" /\ args.rotation.shape # <<3, 3>>) =>
        result = Raised("ValueError", <<"Rotation matrix is not of shape (3, 3)">>)

\* the 2x2 identity with a translation and points that are invalid themselves
C12_Witness ==
    /\ op = "project_to_image"
    /\ args.rotation = identity(2)
    /\ args.translation.shape = <<>>
    /\ args.points3D.shape = <<1, 4>>
    /\ result.raised = "ValueError"

\* the errors taken as validation errors: ValueError, and the TypeError of
\* len() for a translation without dimensions
ValidationErrors == {"ValueError", "TypeError"}

\* C13 (as claimed): project_to_image fails with a validation error for every
\* translation that is not of shape (3,) and for every points3D that is not of
\* shape (num_points, 3); none is accepted and broadcast.
C13_TranslationAndPointsValidated ==
    (/\ op = "project_to_image"
     /\ \/ args.translation.shape # <<3>>
        \/ Len(args.points3D.shape) # 2
        \/ args.points3D.shape[2] # 3) =>
        result.raised \in ValidationErrors

\* C14: for valid arguments project_to_image returns one row per point, in the
\* order of the points, and the row of a point with (x, y, z) = R . p + t and
\* z # 0 is (fx * (x / z) + cx, fy * (y / z) + cy); identity rotation, zero
\* translation, fx = fy = 1, cx = cy = 0 and the point (0, 0, 5) give (0, 0).
C14_PerspectiveProjection ==
    /\ (op = "project_to_image" /\ ValidProjectionArguments) =>
        /\ result.raised = "none"
        /\ result.value.shape = <<args.points3D.shape[1], 2>>
        /\ Len(result.value.data) = 2 * args.points3D.shape[1]
        /\ \A i \in 1..args.points3D.shape[1] :
            LET x == CameraPoint(i, 1)
                y == CameraPoint(i, 2)
                z == CameraPoint(i, 3)
                fx == args.camera_intrinsics.data[1]
                fy == args.camera_intrinsics.data[5]
                cx == args.camera_intrinsics.data[3]
                cy == args.camera_intrinsics.data[6]
                u == result.value.data[2 * i - 1]
                v == result.value.data[2 * i]
            IN z # 0 =>
                /\ u.den # 0 /\ v.den # 0
                /\ u.num * z = (fx * x + cx * z) * u.den
                /\ v.num * z = (fy * y + cy * z) * v.den
    /\ (/\ op = "project_to_image"
        /\ args.rotation = identity(3)
        /\ args.translation = zeros_vector(3)
        /\ args.points3D = array(<<1, 3>>, <<0, 0, 5>>)
        /\ args.camera_intrinsics = intrinsics(1, 1, 0, 0)) =>
            result = Returned(array(<<1, 2>>, <<Rat(0, 1), Rat(0, 1)>>))

\* two points turned a quarter about z and moved, in front of a camera with
\* different focal lengths and a shifted center, projected to pixels that are
\* no integers
C14_Witness ==
    /\ op = "project_to_image"
    /\ ValidProjectionArguments
    /\ args.rotation = array(<<3, 3>>, <<0, 0 - 1, 0,  1, 0, 0,  0, 0, 1>>)
    /\ args.translation = array(<<3>>, <<1, 0, 2>>)
    /\ args.points3D = array(<<2, 3>>, <<1, 2, 1,  2, 0 - 1, 2>>)
    /\ args.camera_intrinsics = intrinsics(2, 3, 1, 0)
    /\ result.value.data = <<Rat(1, 3), Rat(1, 1), Rat(2, 1), Rat(3, 2)>>

\* C15 (as claimed): for a point whose camera-frame z is 0 project_to_image
\* neither raises nor returns NaN or Inf coordinates.
C15_ZeroDepthGuarded ==
    (/\ op = "project_to_image"
     /\ ValidProjectionArguments
     /\ \E i \in 1..args.points3D.shape[1] : CameraPoint(i, 3) = 0) =>
        /\ result.raised = "none"
        /\ \A k \in 1..Len(result.value.data) : is_finite(result.value.data[k])

\* ------------------------------------------------- solve_PNP, solve_PnP_RANSAC
\* The solvers are OpenCV's.  The model does not compute a pose: a call of a
\* solver ends in one of the outcomes OpenCV has for the arguments, chosen
\* by the action, and the functions are modelled for each outcome.

\* the most points in one list of correspondences
MaxCorrespondences == 5

\* what a solver hands back where it has no array: None
NoArray == array(<<0>>, <<>>)

\* rotation and translation vectors as the solvers return them, of shape (3, 1)
SolvedVectors == {array(<<3, 1>>, <<0, 0, 0>>), array(<<3, 1>>, <<1, 0, 2>>)}

\* a solver returned (success, rotation_vector, translation)
Solved(success, rotation_vector, translation) ==
    Returned([success |-> success, rotation_vector |-> rotation_vector,
              translation |-> translation])

\* cv2.solvePnPRansac(object_points3D, image_points2D, ...): it asserts that
\* there are as many image points as object points (cv2.error), and it
\* rejects what it cannot read as points (cv2.error as well); a solve returns
\* True with both vectors; a failed one returns False, with vectors of shape
\* (3, 1) or, where no pose was written, with None in their place
solvePnPRansac_outcomes(object_points3D, image_points2D) ==
    IF object_points3D.shape[1] # image_points2D.shape[1]
    THEN {Raised("cv2.error", NoValue)}
    ELSE {Raised("cv2.error", NoValue)}
         \cup {Solved(TRUE, r, t) : r \in SolvedVectors, t \in SolvedVectors}
         \cup {Solved(FALSE, r, r) : r \in SolvedVectors}
         \cup {Solved(FALSE, NoArray, NoArray)}

\* the solver flags of OpenCV passed to solve_PNP
Solvers == {"SOLVEPNP_ITERATIVE", "SOLVEPNP_EPNP", "SOLVEPNP_SQPNP"}

\* cv2.solvePnP(points3D, points2D, ..., solver): it asserts the number of
\* points it needs, 3 for SQPNP and at least 4 for the others, and equal
\* counts (cv2.error); otherwise it solves or fails as above
solvePnP_outcomes(points3D, points2D, solver) ==
    IF \/ points3D.shape[1] # points2D.shape[1]
       \/ points3D.shape[1] < 3
       \/ (points3D.shape[1] = 3 /\ solver # "SOLVEPNP_SQPNP")
    THEN {Raised("cv2.error", NoValue)}
    ELSE {Raised("cv2.error", NoValue)}
         \cup {Solved(TRUE, r, t) : r \in SolvedVectors, t \in SolvedVectors}
         \cup {Solved(FALSE, NoArray, NoArray)}

\* solve_PNP(points3D, points2D, camera, solver), for the outcome of the
\* solver: [result, calls], calls being the calls made, in order
solve_PNP(points3D, points2D, camera, solver, outcome) ==
    [result |-> outcome, calls |-> <<"cv2.solvePnP">>]

\* _preprocess_image_points2D(image_points2D): reshape raises ValueError when
\* the array does not hold two entries per point
preprocess_image_points2D(image_points2D) ==
    IF Len(image_points2D.data) # image_points2D.shape[1] * 1 * 2
    THEN Raised("ValueError", <<"cannot reshape array">>)
    ELSE Returned(array(<<image_points2D.shape[1], 1, 2>>, image_points2D.data))

\* np.squeeze(a, axis) for axis counted from 0: None is an array without
\* dimensions and has no axis (AxisError); an axis of another size than one
\* cannot be squeezed (ValueError)
squeeze(a, axis) ==
    IF a = NoArray THEN Raised("AxisError", NoValue)
    ELSE IF axis + 1 > Len(a.shape) THEN Raised("AxisError", NoValue)
    ELSE IF a.shape[axis + 1] # 1
    THEN Raised("ValueError", <<"cannot select an axis to squeeze out">>)
    ELSE Returned(array([k \in 1..(Len(a.shape) - 1) |->
                            IF k <= axis THEN a.shape[k] ELSE a.shape[k + 1]],
                        a.data))

\* lines 291-297 of solve_PnP_RANSAC, after the test of the lengths
solve_PnP_RANSAC_solve(object_points3D, image_points2D, outcome) ==
    LET preprocessed == preprocess_image_points2D(image_points2D)
        translation == squeeze(outcome.value.translation, 1)
    IN IF preprocessed.raised # "none"
       THEN [result |-> preprocessed, calls |-> <<"_preprocess_image_points2D">>]
       ELSE IF outcome.raised # "none"
       THEN [result |-> outcome,
             calls |-> <<"_preprocess_image_points2D", "cv2.solvePnPRansac">>]
       ELSE [result |->
                IF translation.raised # "none" THEN translation
                ELSE Returned([success |-> outcome.value.success,
                               rotation_vector |-> outcome.value.rotation_vector,
                               translation |-> translation.value]),
             calls |-> <<"_preprocess_image_points2D", "cv2.solvePnPRansac",
                         "np.squeeze">>]

\* mutant: the image points are preprocessed before the lengths are tested
solve_PnP_RANSAC_preprocess_first(object_points3D, image_points2D, camera_intrinsics, outcome) ==
    IF preprocess_image_points2D(image_points2D).raised # "none"
    THEN [result |-> preprocess_image_points2D(image_points2D),
          calls |-> <<"_preprocess_image_points2D">>]
    ELSE IF object_points3D.shape[1] < 4 \/ image_points2D.shape[1] < 4
    THEN [result |-> Raised("ValueError",
                            <<"Solve PnP requires at least 4 3D and 2D points">>),
          calls |-> <<"_preprocess_image_points2D">>]
    ELSE solve_PnP_RANSAC_solve(object_points3D, image_points2D, outcome)

\* solve_PnP_RANSAC(object_points3D, image_points2D, camera_intrinsics), for
\* the outcome of the solver: [result, calls]
solve_PnP_RANSAC(object_points3D, image_points2D, camera_intrinsics, outcome) ==
    IF object_points3D.shape[1] < 4 \/ image_points2D.shape[1] < 4
    THEN [result |-> Raised("ValueError",
                            <<"Solve PnP requires at least 4 3D and 2D points">>),
          calls |-> <<>>]
    ELSE solve_PnP_RANSAC_solve(object_points3D, image_points2D, outcome)

\* n points with c coordinates each: point i is (i, i * i, 1, ...)
points_array(n, c) ==
    array(<<n, c>>, [k \in 1..(n * c) |->
                        LET i == (k - 1) \div c + 1
                            j == ((k - 1) % c) + 1
                        IN IF j = 1 THEN i ELSE IF j = 2 THEN i * i ELSE 1])

ObjectPoints3D == {points_array(n, 3) : n \in 0..MaxCorrespondences}

\* image points of shape (n, 2), and of shape (n, 3), which reshape refuses
ImagePoints2D == {points_array(n, c) : n \in 0..MaxCorrespondences, c \in {2, 3}}

\* paz.backend.Camera as far as solve_PNP reads it
Camera == [intrinsics |-> intrinsics(2, 2, 1, 1), distortion |-> array(<<4>>, <<0, 0, 0, 0>>)]

\* solve_PnP_RANSAC(object_points3D, image_points2D, camera_intrinsics)
CallSolvePnPRANSAC ==
    /\ op = "init"
    /\ \E object_points3D \in ObjectPoints3D, image_points2D \in ImagePoints2D :
        \E outcome \in solvePnPRansac_outcomes(object_points3D, image_points2D) :
            LET call == solve_PnP_RANSAC(object_points3D, image_points2D,
                                         Camera.intrinsics, outcome)
            IN /\ op' = "solve_PnP_RANSAC"
               /\ args' = [object_points3D |-> object_points3D,
                           image_points2D |-> image_points2D,
                           camera_intrinsics |-> Camera.intrinsics]
               /\ result' = call.result
               /\ trace' = call.calls
               /\ UNCHANGED processor

\* solve_PNP(points3D, points2D, camera, solver)
CallSolvePNP ==
    /\ op = "init"
    /\ \E points3D \in ObjectPoints3D, points2D \in ImagePoints2D, solver \in Solvers :
        \E outcome \in solvePnP_outcomes(points3D, points2D, solver) :
            LET call == solve_PNP(points3D, points2D, Camera, solver, outcome)
            IN /\ op' = "solve_PNP"
               /\ args' = [points3D |-> points3D, points2D |-> points2D,
                           camera |-> Camera, solver |-> solver]
               /\ result' = call.result
               /\ trace' = call.calls
               /\ UNCHANGED processor

NextPnP ==
    \/ CallSolvePnPRANSAC
    \/ CallSolvePNP

SpecPnP == Init /\ [][NextPnP]_vars

\* C16: solve_PnP_RANSAC raises the ValueError 'Solve PnP requires at least 4
\* 3D and 2D points' whenever one of the two lists has fewer than 4 entries,
\* before it preprocesses the image points or calls the solver.
C16_FewerThanFourRaises ==
    (/\ op = "solve_PnP_RANSAC"
     /\ \/ args.object_points3D.shape[1] < 4
        \/ args.image_points2D.shape[1] < 4) =>
        /\ result = Raised("ValueError",
                           <<"Solve PnP requires at least 4 3D and 2D points">>)
        /\ trace = <<>>

\* three image points in an array that the preprocessing would refuse, next to
\* enough object points
C16_Witness ==
    /\ op = "solve_PnP_RANSAC"
    /\ args.object_points3D.shape = <<4, 3>>
    /\ args.image_points2D.shape = <<3, 3>>
    /\ result.raised = "ValueError"
    /\ trace = <<>>

\* C17 (as claimed): solve_PNP called with fewer than 4 points raises a
\* validation error and does not hand the points to the solver.
C17_SolvePNPValidates ==
    (op = "solve_PNP" /\ args.points3D.shape[1] < 4) =>
        /\ result.raised = "ValueError"
        /\ trace = <<>>

\* C18 (as claimed): for at least 4 correspondences solve_PnP_RANSAC returns
\* (success, rotation vector, translation) with a translation of shape (3,),
\* whether the solve succeeded or failed, and raises nothing.
C18_ReturnsFlagAndFlatTranslation ==
    (/\ op = "solve_PnP_RANSAC"
     /\ args.object_points3D.shape[1] >= 4
     /\ args.image_points2D.shape = <<args.object_points3D.shape[1], 2>>) =>
        /\ result.raised = "none"
        /\ result.value.success \in BOOLEAN
        /\ result.value.translation.shape = <<3>>

\* ------------------------------ solve_least_squares, compute_optimized_pose3D
\* the most persons in one array of poses
MaxPersons == 2

\* the entries of one optimized pose: 32 joints with 2 coordinates
PoseEntries == 64

\* np.reshape(x, (-1, 3))
reshape_rows_of_three(x) ==
    IF Len(x.data) % 3 # 0
    THEN Raised("ValueError", <<"cannot reshape array">>)
    ELSE Returned(array(<<Len(x.data) \div 3, 3>>, x.data))

\* the result object of scipy.optimize.least_squares: the solution x, of the
\* shape of the initial guess, the status of the termination and success,
\* which is True for a status above 0
OptimizeResult(x, status) ==
    Returned([x |-> x, status |-> status, success |-> status > 0])

\* the translations a solver may find for one person
PersonTranslations == {<<0, 0, 0>>, <<1, 0 - 1, 2>>, <<0, 2, 0 - 1>>}

\* solver(compute_joints_distance, initial_joints_translation, ...): it raises
\* ValueError for an initial guess it cannot use, or returns a result whose
\* status is 2 (converged) or 0 (evaluation cap reached, the last iterate in x)
least_squares_outcomes(initial_joints_translation) ==
    {Raised("ValueError", NoValue)}
    \cup {OptimizeResult(array(initial_joints_translation.shape, ravel(rows)), status) :
            rows \in [1..(Len(initial_joints_translation.data) \div 3) -> PersonTranslations],
            status \in {0, 2}}

\* solve_least_squares(solver, compute_joints_distance,
\* initial_joints_translation, joints3D, poses2D, camera_intrinsics), for the
\* outcome of the call of solver
solve_least_squares(solver_outcome, initial_joints_translation, joints3D, poses2D, camera_intrinsics) ==
    IF solver_outcome.raised # "none" THEN solver_outcome
    ELSE reshape_rows_of_three(solver_outcome.value.x)

\* keypoints3D[person] for keypoints3D of shape (N, J, 3), person from 1
person_of(keypoints3D, person) ==
    array(<<keypoints3D.shape[2], 3>>,
          SubSeq(keypoints3D.data,
                 (person - 1) * keypoints3D.shape[2] * 3 + 1,
                 person * keypoints3D.shape[2] * 3))

\* joint_translation[person] for joint_translation of shape (N, 3)
row_of(joint_translation, person) ==
    array(<<3>>, SubSeq(joint_translation.data, 3 * (person - 1) + 1, 3 * person))

\* mutant: every person is shifted by the first translation
shifted_by_first(keypoints3D, joint_translation, person) ==
    broadcast_add(person_of(keypoints3D, person), row_of(joint_translation, 1)).value

\* keypoints3D[person] + joint_translation[person]
shifted(keypoints3D, joint_translation, person) ==
    broadcast_add(person_of(keypoints3D, person),
                  row_of(joint_translation, person)).value

\* the loop of compute_optimized_pose3D from person on: the entries of the
\* projections, person after person
RECURSIVE optimized_poses(_, _, _, _)
optimized_poses(keypoints3D, joint_translation, camera_intrinsics, person) ==
    IF person > keypoints3D.shape[1] THEN <<>>
    ELSE project_to_image(identity(3), zeros_vector(3),
                          shifted(keypoints3D, joint_translation, person),
                          camera_intrinsics).value.data
         \o optimized_poses(keypoints3D, joint_translation, camera_intrinsics, person + 1)

\* keypoints3D as the call leaves it: the statement keypoints3D[person] = ...
\* writes into the caller's array; persons from upto + 1 on are not reached
keypoints3D_after(keypoints3D, joint_translation, upto) ==
    array(keypoints3D.shape,
          [k \in 1..Len(keypoints3D.data) |->
              LET person == (k - 1) \div (keypoints3D.shape[2] * 3) + 1
              IN IF person <= upto
                 THEN keypoints3D.data[k]
                      + joint_translation.data[3 * (person - 1) + ((k - 1) % 3) + 1]
                 ELSE keypoints3D.data[k]])

\* compute_optimized_pose3D(keypoints3D, joint_translation, camera_intrinsics):
\* [result, keypoints3D], the second being the caller's array after the call.
\* np.reshape(points, [1, 64]) raises ValueError for the first person when
\* there are not 32 joints; np.array of an empty list has shape (0,)
compute_optimized_pose3D(keypoints3D, joint_translation, camera_intrinsics) ==
    IF keypoints3D.shape[1] = 0
    THEN [result |-> Returned(array(<<0>>, <<>>)), keypoints3D |-> keypoints3D]
    ELSE IF 2 * keypoints3D.shape[2] # PoseEntries
    THEN [result |-> Raised("ValueError", <<"cannot reshape array">>),
          keypoints3D |-> keypoints3D_after(keypoints3D, joint_translation, 1)]
    ELSE [result |-> Returned(array(<<keypoints3D.shape[1], 1, PoseEntries>>,
                        optimized_poses(keypoints3D, joint_translation,
                                        camera_intrinsics, 1))),
          keypoints3D |-> keypoints3D_after(keypoints3D, joint_translation,
                                            keypoints3D.shape[1])]

\* a pose of J joints around a base point: joint j is the base moved by
\* (j mod 2, -(j mod 3), j mod 2)
pose(J, base) ==
    [k \in 1..(3 * J) |->
        LET j == (k - 1) \div 3 + 1
            c == ((k - 1) % 3) + 1
        IN IF c = 2 THEN base[c] - (j % 3) ELSE base[c] + (j % 2)]

PoseBases == {<<0, 0, 1>>, <<1, 2, 0>>, <<0 - 1, 0, 2>>}

\* arrays (N, J, 3) of N poses
KeypointArrays(N, J) ==
    {array(<<N, J, 3>>, ravel([person \in 1..N |-> pose(J, bases[person])])) :
        bases \in [1..N -> PoseBases]}

\* the number of entries of an array of this shape
RECURSIVE size_of(_)
size_of(shape) == IF shape = <<>> THEN 1 ELSE Head(shape) * size_of(Tail(shape))

\* filter_keypoints(keypoints, args_to_joints): keypoints[:, args_to_joints, :]
\* for keypoints of shape (N, J, ...) and a list of indices counted from 0, a
\* negative index counting from the end; IndexError for an array of fewer than
\* three axes and for an index outside of -J..J-1
filter_keypoints(keypoints, args_to_joints) ==
    IF Len(keypoints.shape) < 3
    THEN Raised("IndexError", <<"too many indices for array">>)
    ELSE LET J == keypoints.shape[2]
             D == size_of(SubSeq(keypoints.shape, 3, Len(keypoints.shape)))
             L == Len(args_to_joints)
         IN IF \E j \in 1..L : args_to_joints[j] >= J \/ args_to_joints[j] < 0 - J
            THEN Raised("IndexError", <<"index is out of bounds for axis 1">>)
            ELSE Returned(array(
                    <<keypoints.shape[1], L>>
                        \o SubSeq(keypoints.shape, 3, Len(keypoints.shape)),
                    [k \in 1..(keypoints.shape[1] * L * D) |->
                        LET person == (k - 1) \div (L * D) + 1
                            joint == ((k - 1) % (L * D)) \div D + 1
                            c == ((k - 1) % D) + 1
                            index == IF args_to_joints[joint] < 0
                                     THEN args_to_joints[joint] + J
                                     ELSE args_to_joints[joint]
                        IN keypoints.data[((person - 1) * J + index) * D + c]]))

\* filter_keypoints3D(keypoints3D, args_to_joints3D): len() of an array
\* without axes raises TypeError; np.reshape to [len(keypoints3D), 32, 3]
\* raises ValueError when the array has not that many entries; the joints of
\* the list are kept
filter_keypoints3D(keypoints3D, args_to_joints3D) ==
    IF keypoints3D.shape = <<>>
    THEN Raised("TypeError", <<"len() of unsized object">>)
    ELSE IF size_of(keypoints3D.shape) # keypoints3D.shape[1] * 32 * 3
    THEN Raised("ValueError", <<"cannot reshape array">>)
    ELSE filter_keypoints(array(<<keypoints3D.shape[1], 32, 3>>, keypoints3D.data),
                          args_to_joints3D)

\* the 16 moving joints among the 32, counted from 0
ArgsToJoints3D == <<0, 1, 2, 3, 6, 7, 8, 12, 13, 15, 17, 18, 19, 25, 26, 27>>

\* solve_least_squares(...) for N persons with their 16 moving joints, which
\* filter_keypoints3D took from poses of 32 joints; trace keeps what the
\* solver returned
CallSolveLeastSquares ==
    /\ op = "init"
    /\ \E N \in 0..MaxPersons :
        \E keypoints3D \in KeypointArrays(N, 32), camera_intrinsics \in Cameras :
            LET initial_joints_translation == array(<<3 * N>>, [k \in 1..(3 * N) |-> 1])
                joints3D == filter_keypoints3D(keypoints3D, ArgsToJoints3D).value
                poses2D == array(<<N, 32>>, [k \in 1..(32 * N) |-> k % 5])
            IN \E solver_outcome \in least_squares_outcomes(initial_joints_translation) :
                /\ op' = "solve_least_squares"
                /\ args' = [initial_joints_translation |-> initial_joints_translation,
                            joints3D |-> joints3D, poses2D |-> poses2D,
                            camera_intrinsics |-> camera_intrinsics]
                /\ result' = solve_least_squares(solver_outcome,
                                 initial_joints_translation, joints3D, poses2D,
                                 camera_intrinsics)
                /\ trace' = [solver |-> solver_outcome]
                /\ UNCHANGED processor

\* compute_optimized_pose3D(keypoints3D, joint_translation, camera_intrinsics)
\* with the translations solve_least_squares returned, for the poses of 32
\* joints the moving joints were taken from, and for the 16 moving joints
\* themselves; trace keeps the caller's keypoints3D after the call
CallComputeOptimizedPose3D ==
    /\ op = "solve_least_squares"
    /\ result.raised = "none"
    /\ \E keypoints3D \in KeypointArrays(result.value.shape[1], 32) \cup {args.joints3D} :
        /\ keypoints3D.shape[2] = 32 =>
                filter_keypoints3D(keypoints3D, ArgsToJoints3D).value = args.joints3D
        /\ LET call == compute_optimized_pose3D(keypoints3D, result.value,
                                                args.camera_intrinsics)
           IN /\ op' = "compute_optimized_pose3D"
              /\ args' = [keypoints3D |-> keypoints3D,
                          joint_translation |-> result.value,
                          camera_intrinsics |-> args.camera_intrinsics]
              /\ result' = call.result
              /\ trace' = [keypoints3D |-> call.keypoints3D]
              /\ UNCHANGED processor

NextPose ==
    \/ CallSolveLeastSquares
    \/ CallComputeOptimizedPose3D

SpecPose == Init /\ [][NextPose]_vars

\* C19 (as claimed): solve_least_squares reports the success or failure of the
\* solver through a returned flag: where the solver returned, the value of
\* solve_least_squares carries the solver's success.
C19_ReportsSolverSuccess ==
    (op = "solve_least_squares" /\ trace.solver.raised = "none") =>
        /\ result.raised = "none"
        /\ "success" \in DOMAIN result.value
        /\ result.value.success = trace.solver.value.success

\* coordinate c of joint j of person i of the call in the state, shifted by
\* translation i
ShiftedJoint(i, j, c) ==
    args.keypoints3D.data[((i - 1) * args.keypoints3D.shape[2] + (j - 1)) * 3 + c]
    + args.joint_translation.data[3 * (i - 1) + c]

\* C20: solve_least_squares returns the solution as one row of three per
\* person, and compute_optimized_pose3D returns for N persons of 32 joints N
\* entries of shape (1, 64), entry i holding for each joint of person i,
\* moved by translation i to (x, y, z) with z # 0, the pixel
\* (fx * (x / z) + cx, fy * (y / z) + cy) of the projection with identity
\* rotation and zero translation.
C20_OneTranslationPerPerson ==
    /\ (op = "solve_least_squares" /\ result.raised = "none") =>
        /\ result.value.shape = <<args.joints3D.shape[1], 3>>
        /\ result.value.data = trace.solver.value.x.data
    /\ (op = "compute_optimized_pose3D" /\ args.keypoints3D.shape[2] = 32) =>
        /\ result.raised = "none"
        /\ args.joint_translation.shape = <<args.keypoints3D.shape[1], 3>>
        /\ args.keypoints3D.shape[1] > 0 =>
                result.value.shape = <<args.keypoints3D.shape[1], 1, 64>>
        /\ Len(result.value.data) = 64 * args.keypoints3D.shape[1]
        /\ \A i \in 1..args.keypoints3D.shape[1] : \A j \in 1..32 :
            LET x == ShiftedJoint(i, j, 1)
                y == ShiftedJoint(i, j, 2)
                z == ShiftedJoint(i, j, 3)
                fx == args.camera_intrinsics.data[1]
                fy == args.camera_intrinsics.data[5]
                cx == args.camera_intrinsics.data[3]
                cy == args.camera_intrinsics.data[6]
                u == result.value.data[64 * (i - 1) + 2 * j - 1]
                v == result.value.data[64 * (i - 1) + 2 * j]
            IN z # 0 =>
                /\ u.den # 0 /\ v.den # 0
                /\ u.num * z = (fx * x + cx * z) * u.den
                /\ v.num * z = (fy * y + cy * z) * v.den

\* two persons of 32 joints with different translations from the solver, the
\* second person's first joint projected with the second translation
C20_Witness ==
    /\ op = "compute_optimized_pose3D"
    /\ args.keypoints3D.shape = <<2, 32, 3>>
    /\ args.joint_translation = array(<<2, 3>>, <<0, 2, 0 - 1,  1, 0 - 1, 2>>)
    /\ args.camera_intrinsics = intrinsics(2, 3, 1, 0)
    /\ result.raised = "none"
    /\ result.value.shape = <<2, 1, 64>>
    /\ ShiftedJoint(2, 1, 3) = 3
    /\ result.value.data[65] = Rat(2 * ShiftedJoint(2, 1, 1) + 3, 3)
    /\ result.value.data[65] # Rat(2 * (ShiftedJoint(2, 1, 1) - 1) + 3, 3)

\* ------------------------------------------------ the arrays of the caller
\* translate_points2D_origin(points2D, coordinates): the two assignments write
\* into the caller's points2D and the function returns that same array.
\* [result, points2D, returns_argument]: the value returned, the caller's
\* array after the call, and whether the value returned is the caller's array
translate_points2D_origin(points2D, coordinates) ==
    LET x_min == coordinates[1]
        y_min == coordinates[2]
        translated == array(points2D.shape,
                            [k \in 1..Len(points2D.data) |->
                                IF k % 2 = 1 THEN points2D.data[k] + x_min
                                ELSE points2D.data[k] + y_min])
    IN [result |-> Returned(translated), points2D |-> translated,
        returns_argument |-> TRUE]

Points2D ==
    {array(<<Len(rows), 2>>, ravel(rows)) :
        rows \in SeqsUpTo({<<0, 0>>, <<1, 2>>, <<3, 1>>}, MaxPoints)}

\* (x_min, y_min, x_max, y_max)
BoxCoordinates == {<<0, 0, 4, 4>>, <<1, 2, 5, 5>>, <<2, 0, 3, 3>>}

\* translate_points2D_origin(points2D, coordinates); trace keeps the caller's
\* array after the call
CallTranslatePoints2DOrigin ==
    /\ op = "init"
    /\ \E points2D \in Points2D, coordinates \in BoxCoordinates :
        LET call == translate_points2D_origin(points2D, coordinates)
        IN /\ op' = "translate_points2D_origin"
           /\ args' = [points2D |-> points2D, coordinates |-> coordinates]
           /\ result' = call.result
           /\ trace' = [points2D |-> call.points2D,
                        returns_argument |-> call.returns_argument,
                        first |-> call.result]
           /\ UNCHANGED processor

\* the caller calls translate_points2D_origin once more with the same array
\* and the same coordinates; trace keeps the result of the first call
CallTranslatePoints2DOriginAgain ==
    /\ op = "translate_points2D_origin"
    /\ LET call == translate_points2D_origin(trace.points2D, args.coordinates)
       IN /\ op' = "translate_points2D_origin again"
          /\ args' = [points2D |-> trace.points2D, coordinates |-> args.coordinates]
          /\ result' = call.result
          /\ trace' = [points2D |-> call.points2D,
                       returns_argument |-> call.returns_argument,
                       first |-> trace.first]
          /\ UNCHANGED processor

\* (x + y) / 2 of two floats
mean(x, y) == Rat(x.num * y.den + y.num * x.den, 2 * x.den * y.den)

\* keypoints2D[:, point] = (keypoints2D[:, joints_indices[0]] +
\* keypoints2D[:, joints_indices[1]]) / 2 for keypoints2D of shape (N, J, 2),
\* the indices counted from 0
merged(keypoints2D, point, joints_indices) ==
    array(keypoints2D.shape,
          [k \in 1..Len(keypoints2D.data) |->
              LET J == keypoints2D.shape[2]
                  joint == ((k - 1) \div 2) % J
                  offset == k - 2 * joint
              IN IF joint = point
                 THEN mean(keypoints2D.data[offset + 2 * joints_indices[1]],
                           keypoints2D.data[offset + 2 * joints_indices[2]])
                 ELSE keypoints2D.data[k]])

\* the loop of merge_into_mean over the items of args_to_mean, a sequence of
\* pairs <<point, joints_indices>> in the order of the dictionary
RECURSIVE merge_items(_, _)
merge_items(keypoints2D, items) ==
    IF items = <<>> THEN keypoints2D
    ELSE merge_items(merged(keypoints2D, Head(items)[1], Head(items)[2]), Tail(items))

\* merge_into_mean(keypoints2D, args_to_mean) for a float array keypoints2D:
\* every assignment writes into the caller's array, which is returned.
\* [result, keypoints2D, returns_argument] as for translate_points2D_origin
merge_into_mean(keypoints2D, args_to_mean) ==
    LET after == merge_items(keypoints2D, args_to_mean)
    IN [result |-> Returned(after), keypoints2D |-> after, returns_argument |-> TRUE]

\* min(max(x, -1), 1)
clipped(x) ==
    IF x.num < 0 - x.den THEN Rat(0 - 1, 1) ELSE IF x.num > x.den THEN Rat(1, 1) ELSE x

\* int(round(q)): the nearest integer, the even one of two equally near
round_half_even(q) ==
    LET floor == q.num \div q.den
        rest == q.num - floor * q.den
    IN IF 2 * rest < q.den THEN floor
       ELSE IF 2 * rest > q.den THEN floor + 1
       ELSE IF floor % 2 = 0 THEN floor ELSE floor + 1

\* (min(max(x, -1), 1) * width / 2 + width / 2) - 0.5
image_x(x, width) ==
    Rat(clipped(x).num * width + (width - 1) * clipped(x).den, 2 * clipped(x).den)

\* height - 0.5 - (min(max(y, -1), 1) * height / 2 + height / 2)
image_y(y, height) ==
    Rat((height - 1) * clipped(y).den - clipped(y).num * height, 2 * clipped(y).den)

\* denormalize_keypoints(keypoints, height, width) for a float array keypoints
\* of shape (num_keypoints, 2): keypoints[keypoint_arg][:2] = [x, y] writes
\* into the caller's array, which is returned
denormalize_keypoints(keypoints, height, width) ==
    LET after == array(keypoints.shape,
                       [k \in 1..Len(keypoints.data) |->
                           IF ((k - 1) % keypoints.shape[2]) = 0
                           THEN Rat(round_half_even(image_x(keypoints.data[k], width)), 1)
                           ELSE IF ((k - 1) % keypoints.shape[2]) = 1
                           THEN Rat(round_half_even(image_y(keypoints.data[k], height)), 1)
                           ELSE keypoints.data[k]])
    IN [result |-> Returned(after), keypoints |-> after, returns_argument |-> TRUE]

\* an array of floats from a sequence of pairs [numerator, denominator]
floats(shape, pairs) == array(shape, [k \in 1..Len(pairs) |-> Rat(pairs[k][1], pairs[k][2])])

\* three joints of a person in the image
PersonJoints2D ==
    {<<<<0, 1>>, <<0, 1>>, <<2, 1>>, <<4, 1>>, <<4, 1>>, <<8, 1>>>>,
     <<<<3, 1>>, <<6, 1>>, <<7, 2>>, <<7, 1>>, <<4, 1>>, <<8, 1>>>>,
     <<<<1, 1>>, <<0, 1>>, <<0, 1>>, <<1, 1>>, <<1, 1>>, <<1, 1>>>>}

\* args_to_mean: {0: [1, 2]}, {1: [0, 2]} and {0: [1, 2], 2: [0, 1]}
ArgsToMean ==
    {<< <<0, <<1, 2>>>> >>, << <<1, <<0, 2>>>> >>,
     << <<0, <<1, 2>>>>, <<2, <<0, 1>>>> >>}

\* normalized keypoints, the last outside of [-1, 1]
NormalizedKeypoints ==
    {floats(<<Len(rows), 2>>, ravel(rows)) :
        rows \in SeqsUpTo({<<<<0, 1>>, <<0, 1>>>>, <<<<1, 1>>, <<0 - 1, 1>>>>,
                           <<<<0 - 1, 2>>, <<1, 4>>>>, <<<<0 - 2, 1>>, <<3, 1>>>>},
                          MaxPoints)}

\* merge_into_mean(keypoints2D, args_to_mean)
CallMergeIntoMean ==
    /\ op = "init"
    /\ \E N \in 1..MaxPersons :
        \E persons \in [1..N -> PersonJoints2D], args_to_mean \in ArgsToMean :
            LET keypoints2D == floats(<<N, 3, 2>>, ravel(persons))
                call == merge_into_mean(keypoints2D, args_to_mean)
            IN /\ args' = [keypoints2D |-> keypoints2D, args_to_mean |-> args_to_mean]
               /\ result' = call.result
               /\ trace' = [keypoints2D |-> call.keypoints2D,
                            returns_argument |-> call.returns_argument,
                            first |-> call.result]
    /\ op' = "merge_into_mean"
    /\ UNCHANGED processor

\* the caller calls merge_into_mean once more with the same array
CallMergeIntoMeanAgain ==
    /\ op = "merge_into_mean"
    /\ LET call == merge_into_mean(trace.keypoints2D, args.args_to_mean)
       IN /\ args' = [keypoints2D |-> trace.keypoints2D, args_to_mean |-> args.args_to_mean]
          /\ result' = call.result
          /\ trace' = [keypoints2D |-> call.keypoints2D,
                       returns_argument |-> call.returns_argument,
                       first |-> trace.first]
    /\ op' = "merge_into_mean again"
    /\ UNCHANGED processor

\* denormalize_keypoints(keypoints, height, width)
CallDenormalizeKeypoints ==
    /\ op = "init"
    /\ \E keypoints \in NormalizedKeypoints, height \in 1..MaxSide, width \in 1..MaxSide :
        LET call == denormalize_keypoints(keypoints, height, width)
        IN /\ args' = [keypoints |-> keypoints, height |-> height, width |-> width]
           /\ result' = call.result
           /\ trace' = [keypoints |-> call.keypoints,
                        returns_argument |-> call.returns_argument,
                        first |-> call.result]
    /\ op' = "denormalize_keypoints"
    /\ UNCHANGED processor

\* the caller calls denormalize_keypoints once more with the same array
CallDenormalizeKeypointsAgain ==
    /\ op = "denormalize_keypoints"
    /\ LET call == denormalize_keypoints(trace.keypoints, args.height, args.width)
       IN /\ args' = [keypoints |-> trace.keypoints, height |-> args.height,
                      width |-> args.width]
          /\ result' = call.result
          /\ trace' = [keypoints |-> call.keypoints,
                       returns_argument |-> call.returns_argument,
                       first |-> trace.first]
    /\ op' = "denormalize_keypoints again"
    /\ UNCHANGED processor

\* the caller calls compute_optimized_pose3D once more with the same arrays;
\* trace keeps the result of the first call
CallComputeOptimizedPose3DAgain ==
    /\ op = "compute_optimized_pose3D"
    /\ LET call == compute_optimized_pose3D(trace.keypoints3D, args.joint_translation,
                                            args.camera_intrinsics)
       IN /\ op' = "compute_optimized_pose3D again"
          /\ args' = [keypoints3D |-> trace.keypoints3D,
                      joint_translation |-> args.joint_translation,
                      camera_intrinsics |-> args.camera_intrinsics]
          /\ result' = call.result
          /\ trace' = [keypoints3D |-> call.keypoints3D, first |-> result]
          /\ UNCHANGED processor

NextFrame ==
    \/ CallSolveLeastSquares
    \/ CallComputeOptimizedPose3D
    \/ CallComputeOptimizedPose3DAgain
    \/ CallTranslatePoints2DOrigin
    \/ CallTranslatePoints2DOriginAgain
    \/ CallMergeIntoMean
    \/ CallMergeIntoMeanAgain
    \/ CallDenormalizeKeypoints
    \/ CallDenormalizeKeypointsAgain

SpecFrame == Init /\ [][NextFrame]_vars

\* C21 (as claimed): after compute_optimized_pose3D, translate_points2D_origin,
\* merge_into_mean or denormalize_keypoints returns, the caller's array has its
\* original contents and the value returned is not that array, so a second
\* call on the same array gives the result of the first.
C21_InputsUnmodified ==
    /\ op \in {"compute_optimized_pose3D", "compute_optimized_pose3D again"} =>
        trace.keypoints3D = args.keypoints3D
    /\ op \in {"translate_points2D_origin", "translate_points2D_origin again"} =>
        /\ trace.points2D = args.points2D
        /\ ~trace.returns_argument
    /\ op \in {"merge_into_mean", "merge_into_mean again"} =>
        /\ trace.keypoints2D = args.keypoints2D
        /\ ~trace.returns_argument
    /\ op \in {"denormalize_keypoints", "denormalize_keypoints again"} =>
        /\ trace.keypoints = args.keypoints
        /\ ~trace.returns_argument
    /\ op \in {"compute_optimized_pose3D again", "translate_points2D_origin again",
               "merge_into_mean again", "denormalize_keypoints again"} =>
        result = trace.first

\* ------------------------------------------------- nms_per_class, continued
\* C22: when a class has two candidates with equal scores that overlap above
\* nms_thresh, the class emits the one with the lower original index, and
\* only that one.
C22_FirstSeenWinsTie ==
    op \in NmsOps =>
        \A class_arg \in DOMAIN trace :
            \A i \in 1..Len(args.box_data.rows) : \A j \in 1..Len(args.box_data.rows) :
                (/\ i < j
                 /\ Candidates(class_arg) = {i, j}
                 /\ args.box_data.rows[i][5 + class_arg]
                        = args.box_data.rows[j][5 + class_arg]
                 /\ iou_above(coordinates_of(args.box_data.rows[i]),
                              coordinates_of(args.box_data.rows[j]), args.nms_thresh))
                => ClassSegment(class_arg) = <<args.box_data.rows[i]>>

\* two different boxes with the same score for their class, overlapping above
\* the threshold: the first was emitted
C22_Witness ==
    /\ op = "nms_per_class"
    /\ Len(args.box_data.rows) = 2
    /\ args.box_data.cols = 5
    /\ Candidates(0) = {1, 2}
    /\ args.box_data.rows[1][5] = args.box_data.rows[2][5]
    /\ coordinates_of(args.box_data.rows[1]) # coordinates_of(args.box_data.rows[2])
    /\ iou_above(coordinates_of(args.box_data.rows[1]),
                 coordinates_of(args.box_data.rows[2]), args.nms_thresh)
    /\ result.value.rows = <<args.box_data.rows[1]>>

\* C27: every row of the output of nms_per_class is a whole row of the input
\* whose score for the class that emitted it is at least conf_thresh; the rows
\* are grouped by class in increasing class index, and a class without a
\* candidate emits nothing.
C27_OutputRowsAreInputRows ==
    op \in NmsOps =>
        /\ result.value.cols = args.box_data.cols
        /\ DOMAIN trace = 0..(args.box_data.cols - 5)
        /\ Len(result.value.rows) = RowsBefore(trace, args.box_data.cols - 4)
        /\ \A class_arg \in DOMAIN trace :
            /\ Candidates(class_arg) = {} => trace[class_arg] = 0
            /\ \A p \in 1..trace[class_arg] :
                \E i \in Candidates(class_arg) :
                    ClassSegment(class_arg)[p] = args.box_data.rows[i]

\* two classes: the first has no candidate, the second emits a row whose score
\* for the first class is below conf_thresh
C27_Witness ==
    /\ op = "nms_per_class"
    /\ args.box_data.cols = 6
    /\ Len(args.box_data.rows) = 2
    /\ args.conf_thresh = 90
    /\ Candidates(0) = {}
    /\ Candidates(1) = {2}
    /\ result.value.rows = <<args.box_data.rows[2]>>
    /\ args.box_data.rows[2][5] = 50

\* ------------------------------------- normalize / denormalize keypoints2D
\* Arrays of floats hold fractions in lowest terms.

\* q / n for a positive integer n
over(q, n) == Rat(q.num, q.den * n)

\* mutant: image_shape = np.array([height, width])
normalize_keypoints2D_height_first(points2D, height, width) ==
    LET image_shape == <<height, width>>
    IN array(points2D.shape,
             [k \in 1..Len(points2D.data) |->
                 plus(times(2, over(points2D.data[k], image_shape[((k - 1) % 2) + 1])),
                      0 - 1)])

\* normalize_keypoints2D(points2D, height, width) for points2D of shape (n, 2):
\* column 0 is divided by width and column 1 by height, then * 2.0, then - 1.0
normalize_keypoints2D(points2D, height, width) ==
    LET image_shape == <<width, height>>
    IN array(points2D.shape,
             [k \in 1..Len(points2D.data) |->
                 plus(times(2, over(points2D.data[k], image_shape[((k - 1) % 2) + 1])),
                      0 - 1)])

\* denormalize_keypoints2D(points2D, height, width): + 1.0, / 2.0, * image_shape
denormalize_keypoints2D(points2D, height, width) ==
    LET image_shape == <<width, height>>
    IN array(points2D.shape,
             [k \in 1..Len(points2D.data) |->
                 times(image_shape[((k - 1) % 2) + 1],
                       over(plus(points2D.data[k], 1), 2))])

\* an array (n, 2) of floats from rows of pairs [numerator, denominator]
float_points(rows) ==
    array(<<Len(rows), 2>>,
          [k \in 1..(2 * Len(rows)) |->
              Rat(rows[(k - 1) \div 2 + 1][((k - 1) % 2) + 1][1],
                  rows[(k - 1) \div 2 + 1][((k - 1) % 2) + 1][2])])

\* heights and widths of images
ImageSides == 1..MaxSide

\* points in pixels: the origin, two points inside and, for each image, its
\* corner (width, height)
PixelPoints(height, width) ==
    {float_points(rows) :
        rows \in SeqsUpTo({<<<<0, 1>>, <<0, 1>>>>, <<<<1, 1>>, <<2, 1>>>>,
                           <<<<3, 2>>, <<1, 1>>>>, <<<<width, 1>>, <<height, 1>>>>},
                          MaxPoints)}

\* points in normalized coordinates
NormalizedPoints ==
    {float_points(rows) :
        rows \in SeqsUpTo({<<<<0 - 1, 1>>, <<0 - 1, 1>>>>, <<<<0, 1>>, <<1, 2>>>>,
                           <<<<0 - 1, 3>>, <<1, 1>>>>, <<<<1, 1>>, <<1, 1>>>>},
                          MaxPoints)}

\* normalize_keypoints2D(points2D, height, width)
CallNormalizeKeypoints2D ==
    /\ op = "init"
    /\ \E height \in ImageSides, width \in ImageSides :
        \E points2D \in PixelPoints(height, width) :
            /\ args' = [points2D |-> points2D, height |-> height, width |-> width]
            /\ result' = Returned(normalize_keypoints2D(points2D, height, width))
    /\ op' = "normalize_keypoints2D"
    /\ UNCHANGED <<trace, processor>>

\* denormalize_keypoints2D(points2D, height, width)
CallDenormalizeKeypoints2D ==
    /\ op = "init"
    /\ \E height \in ImageSides, width \in ImageSides, points2D \in NormalizedPoints :
        /\ args' = [points2D |-> points2D, height |-> height, width |-> width]
        /\ result' = Returned(denormalize_keypoints2D(points2D, height, width))
    /\ op' = "denormalize_keypoints2D"
    /\ UNCHANGED <<trace, processor>>

\* denormalize_keypoints2D(normalized, height, width) on what
\* normalize_keypoints2D returned for the same image
CallDenormalizeNormalized ==
    /\ op = "normalize_keypoints2D"
    /\ result' = Returned(denormalize_keypoints2D(result.value, args.height, args.width))
    /\ trace' = [normalized |-> result.value]
    /\ op' = "denormalize_keypoints2D of normalized"
    /\ UNCHANGED <<args, processor>>

\* normalize_keypoints2D(denormalized, height, width) on what
\* denormalize_keypoints2D returned for the same image
CallNormalizeDenormalized ==
    /\ op = "denormalize_keypoints2D"
    /\ result' = Returned(normalize_keypoints2D(result.value, args.height, args.width))
    /\ trace' = [denormalized |-> result.value]
    /\ op' = "normalize_keypoints2D of denormalized"
    /\ UNCHANGED <<args, processor>>

\* --------------------------------------------------- initialize_translation
MaxJoints == 2

\* mutant: the focal length is read from camera_intrinsics[1, 1]
initialize_translation_y_focal_length(joints2D, camera_intrinsics, ratio) ==
    LET N == joints2D.shape[1]
        focal_length == at(camera_intrinsics, 2, 2)
        image_center_x == at(camera_intrinsics, 1, 3)
        image_center_y == at(camera_intrinsics, 2, 3)
        z == [i \in 1..N |-> focal_length * ratio.data[i]]
        x == [i \in 1..N |-> (at(joints2D, i, 1) - image_center_x) * ratio.data[i]]
        y == [i \in 1..N |-> (at(joints2D, i, 2) - image_center_y) * ratio.data[i]]
    IN array(<<3 * N>>, x \o y \o z)

\* initialize_translation(joints2D, camera_intrinsics, ratio) for joints2D of
\* shape (N, 2) and ratio of shape (N,): x, y and z have shape (N,),
\* np.array((x, y, z)) has shape (3, N) and flatten() lays it out row by row,
\* all x first, then all y, then all z
initialize_translation(joints2D, camera_intrinsics, ratio) ==
    LET N == joints2D.shape[1]
        focal_length == at(camera_intrinsics, 1, 1)
        image_center_x == at(camera_intrinsics, 1, 3)
        image_center_y == at(camera_intrinsics, 2, 3)
        z == [i \in 1..N |-> focal_length * ratio.data[i]]
        x == [i \in 1..N |-> (at(joints2D, i, 1) - image_center_x) * ratio.data[i]]
        y == [i \in 1..N |-> (at(joints2D, i, 2) - image_center_y) * ratio.data[i]]
    IN array(<<3 * N>>, x \o y \o z)

\* x + y of two floats
add(x, y) ==
    IF ~is_finite(x) \/ ~is_finite(y)
    THEN IF x = nan \/ y = nan \/ (~is_finite(x) /\ ~is_finite(y) /\ x # y) THEN nan
         ELSE IF is_finite(x) THEN y ELSE x
    ELSE Rat(x.num * y.den + y.num * x.den, x.den * y.den)

\* (u - q) ** 2 for an integer u and a float q
squared_difference(u, q) ==
    IF q = nan THEN nan
    ELSE IF ~is_finite(q) THEN inf
    ELSE Rat((u * q.den - q.num) * (u * q.den - q.num), q.den * q.den)

\* np.linalg.norm(a - b) of two vectors of equal length, as the number under
\* the square root: the sum of the squares of the differences from entry k on
RECURSIVE norm_radicand(_, _, _)
norm_radicand(a, b, k) ==
    IF k > Len(a) THEN Rat(0, 1)
    ELSE add(squared_difference(a[k], b[k]), norm_radicand(a, b, k + 1))

\* lines 608-611: new_poses3D[person] = keypoints3D[person] +
\* initial_translation[person] for initial_translation reshaped to (-1, 3)
new_poses3D_of(keypoints3D, initial_translation) ==
    array(<<keypoints3D.shape[1] * keypoints3D.shape[2], 3>>,
          ravel([person \in 1..initial_translation.shape[1] |->
                    shifted(keypoints3D, initial_translation, person).data]))

\* compute_reprojection_error(initial_translation, keypoints3D, keypoints2D,
\* camera_intrinsics) for keypoints3D (N, J, 3), keypoints2D (N, 2 J) and an
\* initial_translation of 3 N entries: [result, initial_translation,
\* new_poses3D], the last two being the locals of these names; the result is
\* the norm, given by the number under its square root
compute_reprojection_error(initial_translation, keypoints3D, keypoints2D, camera_intrinsics) ==
    LET reshaped == reshape_rows_of_three(initial_translation)
    IN IF reshaped.raised # "none"
       THEN [result |-> reshaped, initial_translation |-> NoArray, new_poses3D |-> NoArray]
       ELSE LET new_poses3D == new_poses3D_of(keypoints3D, reshaped.value)
                project2D == project_to_image(identity(3), zeros_vector(3),
                                              new_poses3D, camera_intrinsics)
            IN [result |-> Returned([radicand |->
                              norm_radicand(keypoints2D.data, project2D.value.data, 1)]),
                initial_translation |-> reshaped.value,
                new_poses3D |-> new_poses3D]

\* root joints in the image, one per person
RootJoints == {<<0, 0>>, <<1, 2>>, <<3, 1>>}

\* ratios of bone lengths, one per person
Ratios == {1, 2}

\* keypoints2D (N, 2 J): every joint at the image origin, or at (2, 1)
Keypoints2D(N, J) ==
    {array(<<N, 2 * J>>, [k \in 1..(2 * N * J) |-> 0]),
     array(<<N, 2 * J>>, [k \in 1..(2 * N * J) |-> (k % 2) + 1])}

\* initialize_translation(joints2D, camera_intrinsics, ratio)
CallInitializeTranslation ==
    /\ op = "init"
    /\ \E N \in 1..MaxPersons :
        \E roots \in [1..N -> RootJoints], ratios \in [1..N -> Ratios],
           camera_intrinsics \in Cameras :
            LET joints2D == array(<<N, 2>>, ravel(roots))
                ratio == array(<<N>>, ratios)
            IN /\ args' = [joints2D |-> joints2D, camera_intrinsics |-> camera_intrinsics,
                           ratio |-> ratio]
               /\ result' = Returned(initialize_translation(joints2D, camera_intrinsics, ratio))
    /\ op' = "initialize_translation"
    /\ UNCHANGED <<trace, processor>>

\* compute_reprojection_error(initial_translation, keypoints3D, keypoints2D,
\* camera_intrinsics) with the vector initialize_translation returned, as the
\* solver calls it first
CallComputeReprojectionError ==
    /\ op = "initialize_translation"
    /\ \E J \in 1..MaxJoints :
        \E keypoints3D \in KeypointArrays(args.joints2D.shape[1], J),
           keypoints2D \in Keypoints2D(args.joints2D.shape[1], J) :
            LET call == compute_reprojection_error(result.value, keypoints3D, keypoints2D,
                                                   args.camera_intrinsics)
            IN /\ result' = call.result
               /\ trace' = [initial_guess |-> result.value,
                            keypoints3D |-> keypoints3D,
                            keypoints2D |-> keypoints2D,
                            initial_translation |-> call.initial_translation,
                            new_poses3D |-> call.new_poses3D]
    /\ op' = "compute_reprojection_error"
    /\ UNCHANGED <<args, processor>>

\* ----------------------------------------------- compute_orientation_vector
\* An entry of parents is the set of the parent's index: empty for None.
NoParent == {}

\* the index held by an entry of parents that is not None, counted from 0
index_of(parent) == CHOOSE p \in parent : TRUE

\* compute_orientation_vector(keypoints3D, parents) for keypoints3D of shape
\* (num_keypoints, 3): np.zeros(3) for a parent that is None, else
\* keypoints3D[joint_arg] - keypoints3D[parent]; np.stack(delta, 0), which
\* raises ValueError for an empty list
compute_orientation_vector(keypoints3D, parents) ==
    IF Len(parents) = 0
    THEN Raised("ValueError", <<"need at least one array to stack">>)
    ELSE Returned(array(<<Len(parents), 3>>,
          [k \in 1..(3 * Len(parents)) |->
              LET joint_arg == (k - 1) \div 3
                  c == ((k - 1) % 3) + 1
                  parent == parents[joint_arg + 1]
              IN IF parent = NoParent THEN 0
                 ELSE at(keypoints3D, joint_arg + 1, c)
                      - at(keypoints3D, index_of(parent) + 1, c)]))

\* joints in space
JointPositions == {<<0, 0, 0>>, <<1, 0, 0>>, <<1, 2, 2>>}

\* parents of J joints: each joint is a root or has one of the J joints as parent
Parents(J) == [1..J -> {NoParent} \cup {{p} : p \in 0..(J - 1)}]

\* compute_orientation_vector(keypoints3D, parents)
CallComputeOrientationVector ==
    /\ op = "init"
    /\ \E J \in 0..MaxJoints :
        \E joints \in [1..J -> JointPositions], parents \in Parents(J) :
            LET keypoints3D == array(<<J, 3>>, ravel(joints))
            IN /\ args' = [keypoints3D |-> keypoints3D, parents |-> parents]
               /\ result' = compute_orientation_vector(keypoints3D, parents)
    /\ op' = "compute_orientation_vector"
    /\ UNCHANGED <<trace, processor>>

\* --------------------------------------------------------- get_bones_length
\* A length is a sum of square roots and is held as the sequence of the
\* numbers under the roots.

\* np.arange(0, 15) and np.arange(1, 16) have 15 entries
NumBones == 15

\* person[start_joints] - person[end_joints] for a person of poses2D, a vector
\* of 32 entries: entry k minus entry k + 1 for the first 15 entries; the norm
\* of these 15 numbers, as the number under the root
bone_length2D(poses2D, person) ==
    LET entry(k) == poses2D.data[(person - 1) * poses2D.shape[2] + k]
        squares == [k \in 1..NumBones |-> (entry(k) - entry(k + 1)) * (entry(k) - entry(k + 1))]
        Sum[k \in 0..NumBones] == IF k = 0 THEN 0 ELSE Sum[k - 1] + squares[k]
    IN Sum[NumBones]

\* person[start_joints] - person[end_joints] for a person of poses3D, an array
\* (16, 3): a matrix (15, 3), whose norm is the root of the sum of the squares
\* of all its 45 entries
bone_length3D(poses3D, person) ==
    LET joints == person_of(poses3D, person)
        squares == [k \in 1..(3 * NumBones) |->
                       (joints.data[k] - joints.data[k + 3])
                           * (joints.data[k] - joints.data[k + 3])]
        Sum[k \in 0..(3 * NumBones)] == IF k = 0 THEN 0 ELSE Sum[k - 1] + squares[k]
    IN Sum[3 * NumBones]

\* get_bones_length(poses2D, poses3D) for poses2D (N, 32) and poses3D
\* (N, 16, 3): sum_bones2D is a number; sum_bones3D starts as np.zeros(N) and
\* every norm is added to all its entries
get_bones_length(poses2D, poses3D) ==
    [sum_bones2D |-> [person \in 1..poses2D.shape[1] |-> bone_length2D(poses2D, person)],
     sum_bones3D |->
        array(<<poses3D.shape[1]>>,
              [entry \in 1..poses3D.shape[1] |->
                  [person \in 1..poses3D.shape[1] |-> bone_length3D(poses3D, person)]])]

\* a skeleton of 16 joints in space: joint j is at
\* size * (j mod 2, -(j mod 3), j mod 2), or, stretched, all joints at the
\* origin but the first at (size, 0, 0)
skeleton3D(size, stretched) ==
    [k \in 1..(3 * (NumBones + 1)) |->
        IF stretched THEN (IF k = 1 THEN size ELSE 0)
        ELSE size * pose(NumBones + 1, <<0, 0, 0>>)[k]]

\* its 16 joints in the image, (x, y) after (x, y), followed by 16 joints of
\* another skeleton, which poses2D holds as well
skeleton2D(size, stretched) ==
    [k \in 1..(4 * (NumBones + 1)) |->
        LET j == (k - 1) \div 2 + 1
            c == ((k - 1) % 2) + 1
        IN IF j > NumBones + 1 THEN 0
           ELSE skeleton3D(size, stretched)[3 * (j - 1) + c]]

Sizes == {1, 2}

\* get_bones_length(poses2D, poses3D)
CallGetBonesLength ==
    /\ op = "init"
    /\ \E N \in 1..MaxPersons :
        \E sizes2D \in [1..N -> Sizes], sizes3D \in [1..N -> Sizes],
           stretched \in [1..N -> BOOLEAN] :
            LET poses2D == array(<<N, 4 * (NumBones + 1)>>,
                                 ravel([p \in 1..N |-> skeleton2D(sizes2D[p], stretched[p])]))
                poses3D == array(<<N, NumBones + 1, 3>>,
                                 ravel([p \in 1..N |-> skeleton3D(sizes3D[p], stretched[p])]))
            IN /\ args' = [poses2D |-> poses2D, poses3D |-> poses3D]
               /\ result' = Returned(get_bones_length(poses2D, poses3D))
    /\ op' = "get_bones_length"
    /\ UNCHANGED <<trace, processor>>

\* one function of paz.backend.keypoints is called, or the function that
\* undoes or uses what the first returned
NextKeypoints ==
    \/ CallNormalizeKeypoints2D
    \/ CallDenormalizeKeypoints2D
    \/ CallDenormalizeNormalized
    \/ CallNormalizeDenormalized
    \/ CallInitializeTranslation
    \/ CallComputeReprojectionError
    \/ CallComputeOrientationVector
    \/ CallGetBonesLength

SpecKeypoints == Init /\ [][NextKeypoints]_vars

\* C23: initialize_translation returns a flat vector of 3 N numbers holding,
\* for the root joint (u, v) of every person, x = (u - cx) * ratio,
\* y = (v - cy) * ratio and z = fx * ratio.
C23_AnalyticInitialTranslation ==
    op = "initialize_translation" =>
        LET N == args.joints2D.shape[1]
            fx == at(args.camera_intrinsics, 1, 1)
            cx == at(args.camera_intrinsics, 1, 3)
            cy == at(args.camera_intrinsics, 2, 3)
        IN /\ result.raised = "none"
           /\ result.value.shape = <<3 * N>>
           /\ Len(result.value.data) = 3 * N
           /\ \A i \in 1..N :
                /\ result.value.data[i]
                       = (at(args.joints2D, i, 1) - cx) * args.ratio.data[i]
                /\ result.value.data[N + i]
                       = (at(args.joints2D, i, 2) - cy) * args.ratio.data[i]
                /\ result.value.data[2 * N + i] = fx * args.ratio.data[i]

\* one person with the root at (3, 1), ratio 2, focal lengths 2 and 3 and the
\* image center (1, 0): the vector is (4, 2, 4)
C23_Witness ==
    /\ op = "initialize_translation"
    /\ args.joints2D = array(<<1, 2>>, <<3, 1>>)
    /\ args.ratio = array(<<1>>, <<2>>)
    /\ args.camera_intrinsics = intrinsics(2, 3, 1, 0)
    /\ result.value = array(<<3>>, <<4, 2, 4>>)

\* C24: denormalize_keypoints2D undoes normalize_keypoints2D and the other way
\* round, for the same positive height and width; normalize_keypoints2D maps
\* the pixel (0, 0) to (-1, -1) and the pixel (width, height) to (1, 1).
C24_NormalizeDenormalizeInverse ==
    /\ op \in {"denormalize_keypoints2D of normalized",
               "normalize_keypoints2D of denormalized"} =>
        result.value = args.points2D
    /\ op = "normalize_keypoints2D" =>
        \A i \in 1..args.points2D.shape[1] :
            /\ (at(args.points2D, i, 1) = Rat(0, 1) /\ at(args.points2D, i, 2) = Rat(0, 1))
                => (at(result.value, i, 1) = Rat(0 - 1, 1)
                    /\ at(result.value, i, 2) = Rat(0 - 1, 1))
            /\ (at(args.points2D, i, 1) = Rat(args.width, 1)
                    /\ at(args.points2D, i, 2) = Rat(args.height, 1))
                => (at(result.value, i, 1) = Rat(1, 1) /\ at(result.value, i, 2) = Rat(1, 1))

\* an image 3 wide and 4 high: the points (3/2, 1) and (3, 4) were normalized
\* to (0, -1/2) and (1, 1) and came back
C24_Witness ==
    /\ op = "denormalize_keypoints2D of normalized"
    /\ args.width = 3
    /\ args.height = 4
    /\ args.points2D = float_points(<<<<<<3, 2>>, <<1, 1>>>>, <<<<3, 1>>, <<4, 1>>>>>>)
    /\ trace.normalized = float_points(<<<<<<0, 1>>, <<0 - 1, 2>>>>, <<<<1, 1>>, <<1, 1>>>>>>)
    /\ result.value = args.points2D

\* C25: compute_orientation_vector returns one vector per entry of parents:
\* zeros for a joint without parent, and for every other joint the vector of
\* length 1 in the direction child joint minus parent joint. (Stated for at
\* least one joint and bones of non-zero length.)
C25_UnitOrientationVectors ==
    (op = "compute_orientation_vector" /\ Len(args.parents) > 0) =>
        /\ result.raised = "none"
        /\ result.value.shape = <<Len(args.parents), 3>>
        /\ \A joint \in 1..Len(args.parents) :
            LET v == [c \in 1..3 |-> at(result.value, joint, c)]
            IN IF args.parents[joint] = NoParent THEN v = <<0, 0, 0>>
               ELSE LET parent == index_of(args.parents[joint]) + 1
                        d == [c \in 1..3 |-> at(args.keypoints3D, joint, c)
                                             - at(args.keypoints3D, parent, c)]
                    IN d # <<0, 0, 0>> =>
                       /\ v[1] * v[1] + v[2] * v[2] + v[3] * v[3] = 1
                       /\ v[1] * d[1] + v[2] * d[2] + v[3] * d[3] > 0
                       /\ v[2] * d[3] = v[3] * d[2]
                       /\ v[3] * d[1] = v[1] * d[3]
                       /\ v[1] * d[2] = v[2] * d[1]

\* the largest a with a * a dividing n, for n > 0: sqrt(n) = a * sqrt(n / a^2)
root_factor(n) == CHOOSE a \in 1..n : n % (a * a) = 0 /\ \A b \in (a + 1)..n : n % (b * b) # 0

\* the sum of the factors of the roots in radicands whose remaining number
\* under the root is kernel
RECURSIVE factor_sum(_, _)
factor_sum(radicands, kernel) ==
    IF radicands = <<>> THEN 0
    ELSE LET n == Head(radicands)
         IN (IF n > 0 /\ n \div (root_factor(n) * root_factor(n)) = kernel
             THEN root_factor(n) ELSE 0)
            + factor_sum(Tail(radicands), kernel)

\* two sums of square roots are the same number: roots of different
\* square-free numbers are linearly independent over the rationals
same_length(a, b) ==
    \A kernel \in {a[k] : k \in 1..Len(a)} \cup {b[k] : k \in 1..Len(b)} \cup {1} :
        factor_sum(a, kernel) = factor_sum(b, kernel)

\* the squared length of the bone from joint to joint + 1 of a person in 3D
bone3D(poses3D, person, joint) ==
    LET joints == person_of(poses3D, person)
        d == [c \in 1..3 |-> at(joints, joint, c) - at(joints, joint + 1, c)]
    IN d[1] * d[1] + d[2] * d[2] + d[3] * d[3]

\* the squared length of the bone from joint to joint + 1 of a person in 2D,
\* joint j being the entries 2 j - 1 and 2 j of the person's vector
bone2D(poses2D, person, joint) ==
    LET entry(k) == poses2D.data[(person - 1) * poses2D.shape[2] + k]
        dx == entry(2 * joint - 1) - entry(2 * joint + 1)
        dy == entry(2 * joint) - entry(2 * joint + 2)
    IN dx * dx + dy * dy

\* C26: get_bones_length returns the sum of the lengths of all bones in 2D,
\* and in 3D one entry per person that is the sum of the lengths of that
\* person's bones.
C26_SumOfBoneLengths ==
    op = "get_bones_length" =>
        LET N == args.poses3D.shape[1]
        IN /\ same_length(result.value.sum_bones2D,
                          ravel([person \in 1..N |->
                                    [joint \in 1..NumBones |->
                                        bone2D(args.poses2D, person, joint)]]))
           /\ result.value.sum_bones3D.shape = <<N>>
           /\ \A person \in 1..N :
                same_length(result.value.sum_bones3D.data[person],
                            [joint \in 1..NumBones |->
                                bone3D(args.poses3D, person, joint)])

\* C28: the vector of initialize_translation, reshaped to (N, 3) by
\* compute_reprojection_error, has (x_i, y_i, z_i) of person i as row i, and
\* the joints of person i are moved by it.
C28_RowPerPerson ==
    op = "compute_reprojection_error" =>
        LET N == args.joints2D.shape[1]
            fx == at(args.camera_intrinsics, 1, 1)
            cx == at(args.camera_intrinsics, 1, 3)
            cy == at(args.camera_intrinsics, 2, 3)
            guess(i) == <<(at(args.joints2D, i, 1) - cx) * args.ratio.data[i],
                          (at(args.joints2D, i, 2) - cy) * args.ratio.data[i],
                          fx * args.ratio.data[i]>>
        IN /\ trace.initial_translation.shape = <<N, 3>>
           /\ \A i \in 1..N :
                /\ row_of(trace.initial_translation, i).data = guess(i)
                /\ \A j \in 1..trace.keypoints3D.shape[2] : \A c \in 1..3 :
                      at(trace.new_poses3D, (i - 1) * trace.keypoints3D.shape[2] + j, c)
                          = at(person_of(trace.keypoints3D, i), j, c) + guess(i)[c]

\* ------------------------------------------------------------- VideoPlayer
\* op is the statement of VideoPlayer.start executed last, args holds the
\* locals of start and trace what the camera, the pipeline, the windows and
\* the keyboard have seen so far.

\* the number of frames the camera delivers in a run
MaxFrames == 3

\* ord('q')
ord_q == 113

\* what camera.read()[1] is when no frame could be grabbed
NoFrame == [shape |-> <<>>]

\* frames (height, width, 3) of the camera
Frames == {[shape |-> <<2, 2, 3>>], [shape |-> <<3, 4, 3>>]}

\* what cv2.waitKey(1) returns: -1 without a key, else the code of the key,
\* here of 'a', of 'q' and of 'q' with a modifier flag above the low byte
KeyCodes == {0 - 1, 97, 113, 1048689}

\* key & 0xFF
bitand_0xFF(key) == key % 256

\* mutant: the test for None is left out
frame_is_None_skipped(frame) == FALSE

\* frame is None
frame_is_None(frame) == frame = NoFrame

\* self.pipeline(image=frame): a dictionary whose 'image' is the frame with
\* the inferences drawn on it
pipeline(image) == [image |-> image]

\* cv2.resize(image, (width, height)): cv2.error for None and for an empty
\* target size; the result of an image of one channel has no channel axis
cv2_resize(image, dsize) ==
    IF image.shape = <<>> \/ dsize[1] <= 0 \/ dsize[2] <= 0
    THEN Raised("cv2.error", NoValue)
    ELSE Returned([shape |-> <<dsize[2], dsize[1]>>
                               \o (IF Len(image.shape) = 3 /\ image.shape[3] # 1
                                   THEN <<image.shape[3]>> ELSE <<>>)])

\* VideoPlayer.__init__(image_size, pipeline, camera=0)
VideoPlayer_init(image_size, camera) ==
    [class |-> "VideoPlayer", image_size |-> image_size, pipeline |-> "pipeline",
     camera |-> camera]

\* VideoPlayer(image_size, pipeline, camera)
ConstructVideoPlayer ==
    /\ op = "init"
    /\ \E image_size \in {<<2, 3>>, <<4, 4>>}, camera \in {0, 1} :
        processor' = VideoPlayer_init(image_size, camera)
    /\ op' = "VideoPlayer.__init__"
    /\ UNCHANGED <<args, result, trace>>

\* start(): camera = cv2.VideoCapture(self.camera)
OpenCamera ==
    /\ op = "VideoPlayer.__init__"
    /\ args' = [camera |-> processor.camera, frame |-> NoFrame]
    /\ trace' = [reads |-> 0, printed |-> 0, calls |-> <<>>, shown |-> <<>>,
                 polls |-> <<>>, released |-> 0, destroyed |-> 0]
    /\ op' = "cv2.VideoCapture"
    /\ UNCHANGED <<result, processor>>

\* while True: frame = camera.read()[1]
ReadFrame ==
    /\ op \in {"cv2.VideoCapture", "continue", "cv2.waitKey"}
    /\ trace.reads < MaxFrames
    /\ \E frame \in Frames \cup {NoFrame} :
        args' = [args EXCEPT !.frame = frame]
    /\ trace' = [trace EXCEPT !.reads = @ + 1]
    /\ op' = "camera.read"
    /\ UNCHANGED <<result, processor>>

\* if frame is None: print('Frame: None'); continue
SkipFrame ==
    /\ op = "camera.read"
    /\ frame_is_None(args.frame)
    /\ trace' = [trace EXCEPT !.printed = @ + 1]
    /\ op' = "continue"
    /\ UNCHANGED <<args, result, processor>>

\* results = self.pipeline(image=frame); image = cv2.resize(...);
\* cv2.imshow('webcam', image). An error of cv2.resize leaves start.
ShowFrame ==
    /\ op = "camera.read"
    /\ ~frame_is_None(args.frame)
    /\ LET results == pipeline(args.frame)
           image == cv2_resize(results.image, processor.image_size)
       IN IF image.raised # "none"
          THEN /\ trace' = [trace EXCEPT !.calls = Append(@, args.frame)]
               /\ result' = image
               /\ op' = "cv2.error"
          ELSE /\ trace' = [trace EXCEPT !.calls = Append(@, args.frame),
                                         !.shown = Append(@, image.value)]
               /\ result' = result
               /\ op' = "cv2.imshow"
    /\ UNCHANGED <<args, processor>>

\* if cv2.waitKey(1) & 0xFF == ord('q'): break
WaitKey ==
    /\ op = "cv2.imshow"
    /\ \E key \in KeyCodes :
        /\ trace' = [trace EXCEPT !.polls = Append(@, key)]
        /\ op' = IF bitand_0xFF(key) = ord_q THEN "break" ELSE "cv2.waitKey"
    /\ UNCHANGED <<args, result, processor>>

\* camera.release()
ReleaseCamera ==
    /\ op = "break"
    /\ trace' = [trace EXCEPT !.released = @ + 1]
    /\ op' = "camera.release"
    /\ UNCHANGED <<args, result, processor>>

\* cv2.destroyAllWindows(), and start returns None
DestroyAllWindows ==
    /\ op = "camera.release"
    /\ trace' = [trace EXCEPT !.destroyed = @ + 1]
    /\ result' = Returned(NoValue)
    /\ op' = "cv2.destroyAllWindows"
    /\ UNCHANGED <<args, processor>>

NextVideoPlayer ==
    \/ ConstructVideoPlayer
    \/ OpenCamera
    \/ ReadFrame
    \/ SkipFrame
    \/ ShowFrame
    \/ WaitKey
    \/ ReleaseCamera
    \/ DestroyAllWindows

\* a running start executes its next statement: after the loop the two
\* statements that close the camera and the windows follow
SpecVideoPlayer ==
    /\ Init
    /\ [][NextVideoPlayer]_vars
    /\ WF_vars(ReleaseCamera)
    /\ WF_vars(DestroyAllWindows)

VideoPlayerOps ==
    {"cv2.VideoCapture", "camera.read", "continue", "cv2.imshow", "cv2.waitKey",
     "break", "camera.release", "cv2.destroyAllWindows"}

InLoop == {"cv2.VideoCapture", "camera.read", "continue", "cv2.imshow", "cv2.waitKey"}

\* C29: in VideoPlayer.start the pipeline never gets a None frame; the loop is
\* left only by the iteration that showed a frame and then read a key whose
\* low byte is 'q', and an iteration with a None frame polls no key and stays
\* in the loop; the camera is released and the windows are destroyed once
\* each, in this order, after the loop was left and not before, and once the
\* loop is left both happen.
C29_VideoPlayerLoop ==
    /\ [](op \in VideoPlayerOps =>
            /\ \A k \in 1..Len(trace.calls) : trace.calls[k] # NoFrame
            /\ Len(trace.polls) <= Len(trace.calls)
            /\ trace.reads = trace.printed + Len(trace.calls)
                                + (IF op = "camera.read" THEN 1 ELSE 0)
            /\ trace.released <= 1
            /\ trace.destroyed <= trace.released
            /\ op \in InLoop => trace.released = 0
            /\ op = "camera.release" => (trace.released = 1 /\ trace.destroyed = 0)
            /\ op = "cv2.destroyAllWindows" => (trace.released = 1 /\ trace.destroyed = 1))
    /\ [][(op \in InLoop /\ op' \notin InLoop) =>
            /\ op = "cv2.imshow"
            /\ op' = "break"
            /\ args.frame # NoFrame
            /\ Len(trace'.polls) = Len(trace.polls) + 1
            /\ bitand_0xFF(trace'.polls[Len(trace'.polls)]) = ord_q]_vars
    /\ [][(op = "camera.read" /\ args.frame = NoFrame) =>
            /\ op' = "continue"
            /\ trace'.polls = trace.polls
            /\ trace'.calls = trace.calls
            /\ trace'.shown = trace.shown]_vars
    /\ [][(op \in VideoPlayerOps /\ op' \in VideoPlayerOps
              /\ (trace'.released # trace.released \/ trace'.destroyed # trace.destroyed))
            => op \in {"break", "camera.release"}]_vars
    /\ (op = "break") ~> (op = "cv2.destroyAllWindows")

\* start has returned after a None frame, a frame answered by the key 'a' and a
\* frame answered by 'q'
C29_Witness ==
    /\ op = "cv2.destroyAllWindows"
    /\ trace.reads = 3
    /\ trace.printed = 1
    /\ Len(trace.calls) = 2
    /\ trace.polls = <<97, 113>>
    /\ trace.released = 1
    /\ trace.destroyed = 1

====
